---- MODULE Spec2Model ----
(***************************************************************************)
(* Voice-interaction subsystem of vision-listener: the voice resolver, the *)
(* command dispatcher, the speech-output engine (useTextToSpeech), the     *)
(* speech-input engine (useVoiceCommands), the caption history, the        *)
(* caption service with its client, and the page (Index) that joins them.  *)
(*                                                                         *)
(* Strings are TLC strings; Len, SubSeq and \o act on them character by    *)
(* character, so includes/startsWith/trim/toLowerCase are computed as the  *)
(* JavaScript methods compute them.                                        *)
(***************************************************************************)
EXTENDS Integers, Sequences, FiniteSets, TLC

VARIABLES
    \* ---- voice resolver, called on its own
    rq,              \* the query: [lang, voices]
    rres,            \* <<>> before the call, <<index into rq.voices, 0 = null>> after
    \* ---- command dispatch (recognition.onresult)
    heard,           \* the raw transcript of the last recognition result
    lastCommand,     \* the lastCommand state: <<>> is null, <<t>> a transcript
    invoked,         \* the action handlers invoked by the last step, in order
    toasts,          \* the toast titles raised by the last step, in order
    \* ---- speech-output engine (useTextToSpeech)
    env,             \* the platform: which backends window exposes
    mounted,         \* the hook's component is mounted
    isSpeaking,      \* the isSpeaking state
    currentLanguage, \* the currentLanguage state
    availableVoices, \* the availableVoices state
    platformVoices,  \* what speechSynthesis.getVoices() returns now
    onvoiceschanged, \* speechSynthesis.onvoiceschanged: "null" or "loadVoices"
    utts,            \* the utterances still referenced, by id
    events,          \* utterance callbacks the platform has queued, oldest first
    timers,          \* the utterances whose is-playing check (setTimeout) is pending
    speakCalls,      \* speak calls made so far with a non-empty text
    ops,             \* the platform calls issued by the last step, in order
    lastLang,        \* langToUse of the speak call made in the last step, "" otherwise
    \* ---- speech-input engine (useVoiceCommands)
    supported,       \* window has SpeechRecognition or webkitSpeechRecognition
    sessions,        \* the recognition objects that can still act, by id
    recognitionRef,  \* recognitionRef.current: a session id, 0 is null
    isListening,     \* the isListening state
    startCalls,      \* startListening calls made so far
    handlers,        \* the handlers object the last render supplied, by number
    handlersRef,     \* handlersRef.current
    invokedOf,       \* the handlers object whose handler the last step invoked, 0: none
    \* ---- caption history (useCaptionHistory)
    history,         \* the history state, newest first
    stored,          \* localStorage['caption_history']: <<>> absent, <<items>> present
    nextId,          \* the next fresh id (crypto.randomUUID) and timestamp (Date.now)
    addCalls,        \* addToHistory calls made so far
    removeCalls,     \* removeFromHistory calls made so far
    \* ---- caption client and caption service (useImageCaption, generate-caption)
    requests,        \* the caption requests in flight, by number
    client,          \* useImageCaption's state and the toast of the last step
    genCalls,        \* generateCaption calls made so far
    apiKey,          \* LOVABLE_API_KEY is configured
    \* ---- two speech-output hooks on one window
    instances,       \* each hook instance: [alive, availableVoices]
    synth,           \* window.speechSynthesis: [voices, onvoiceschanged]; the handler
                     \* is the instance whose loadVoices it is, 0 is null
    \* ---- the page (Index)
    selectedLanguage, \* the selectedLanguage state
    currentImage,    \* the currentImage state: <<>> is null
    autoTimer,       \* the pending setTimeout of the auto-read effect: <<>> or <<text>>
    autoReads,       \* auto-read speak calls made for the caption shown
    \* ---- every engine
    lastCall         \* the handler that ran in the last step ("other": a step of the
                     \* platform, a timer, voiceschanged or setLanguage)

resolveVars == <<rq, rres>>
dispatchVars == <<heard, lastCommand, invoked, toasts>>
listenVars == <<supported, sessions, recognitionRef, isListening, startCalls, handlers,
                handlersRef, invokedOf>>
historyVars == <<history, stored, nextId, addCalls, removeCalls>>
captionVars == <<requests, client, genCalls, apiKey>>
voicesVars == <<instances, synth>>
pageVars == <<selectedLanguage, currentImage, autoTimer, autoReads>>
speechState ==
    <<env, isSpeaking, currentLanguage, availableVoices, platformVoices, onvoiceschanged,
      utts, events, timers, speakCalls, lastLang>>
speechVars == <<env, mounted, isSpeaking, currentLanguage, availableVoices, platformVoices,
                onvoiceschanged, utts, events, timers, speakCalls, ops, lastLang>>
vars == <<rq, rres, heard, lastCommand, invoked, toasts, env, mounted, isSpeaking,
          currentLanguage, availableVoices, platformVoices, onvoiceschanged, utts, events,
          timers, speakCalls, ops, lastLang, supported, sessions, recognitionRef, isListening,
          startCalls, handlers, handlersRef, invokedOf, history, stored, nextId, addCalls, removeCalls, requests, client,
          genCalls, apiKey, instances, synth, selectedLanguage, currentImage, autoTimer,
          autoReads, lastCall>>

(***************************************************************************)
(* Bounds of the model.                                                    *)
(***************************************************************************)
MaxVoices == 2       \* longest voice list handed to the resolver
MaxPieces == 2       \* phrases joined into one transcript
MaxSpeak == 2        \* speak calls with a non-empty text
MaxStart == 3        \* startListening calls
MaxAdd == 3          \* addToHistory calls
MaxRemove == 1       \* removeFromHistory calls
MaxGenerate == 2     \* generateCaption calls
MaxRender == 2       \* renders that supply new handlers
MaxPageSpeak == 2    \* speak calls the page makes
MaxAutoReads == 2    \* auto-read speak calls for one caption

(***************************************************************************)
(* JavaScript string methods.                                              *)
(***************************************************************************)
includes(s, sub) ==
    \E i \in 0..(Len(s) - Len(sub)) : SubSeq(s, i + 1, i + Len(sub)) = sub

startsWith(s, p) ==
    Len(p) <= Len(s) /\ SubSeq(s, 1, Len(p)) = p

UpperChars == "ABCDEFGHIJKLMNOPQRSTUVWXYZ"
LowerChars == "abcdefghijklmnopqrstuvwxyz"

lowerChar(c) ==
    IF \E i \in 1..Len(UpperChars) : SubSeq(UpperChars, i, i) = c
    THEN LET i == CHOOSE j \in 1..Len(UpperChars) : SubSeq(UpperChars, j, j) = c
         IN SubSeq(LowerChars, i, i)
    ELSE c

RECURSIVE toLowerCase(_)
toLowerCase(s) ==
    IF s = "" THEN ""
    ELSE lowerChar(SubSeq(s, 1, 1)) \o toLowerCase(SubSeq(s, 2, Len(s)))

WhiteSpace == {" ", "\n", "\t"}

trim(s) ==
    LET idx == {i \in 1..Len(s) : SubSeq(s, i, i) \notin WhiteSpace}
    IN IF idx = {} THEN ""
       ELSE SubSeq(s, CHOOSE i \in idx : \A j \in idx : i <= j,
                      CHOOSE i \in idx : \A j \in idx : i >= j)

\* Array.prototype.find: the index of the first element satisfying P, 0 when none.
findIndex(seq, P(_)) ==
    IF \E i \in 1..Len(seq) : P(seq[i])
    THEN CHOOSE i \in 1..Len(seq) : P(seq[i]) /\ \A j \in 1..(i - 1) : ~P(seq[j])
    ELSE 0

\* The first non-zero entry of a sequence of indices, 0 when all are 0
\* (a for-loop that returns at its first hit).
firstHit(hits) ==
    IF \E k \in 1..Len(hits) : hits[k] # 0
    THEN hits[CHOOSE k \in 1..Len(hits) : hits[k] # 0 /\ \A j \in 1..(k - 1) : hits[j] = 0]
    ELSE 0

(***************************************************************************)
(* Voice resolver: findVoiceForLanguage.                                   *)
(***************************************************************************)
LANGUAGE_VOICE_MAP ==
    [en |-> <<"en-US", "en-GB", "en-AU", "en">>,
     hi |-> <<"hi-IN", "hi">>,
     te |-> <<"te-IN", "te">>]

\* LANGUAGE_VOICE_MAP[langCode] || [langCode]
localesOf(langCode) ==
    IF langCode \in DOMAIN LANGUAGE_VOICE_MAP THEN LANGUAGE_VOICE_MAP[langCode]
    ELSE <<langCode>>

\* The native-script names of the source are written here in ASCII.
langNames ==
    [hi |-> <<"hindi", "hindi-native">>,
     te |-> <<"telugu", "telugu-native">>,
     en |-> <<"english">>]

namesOf(langCode) ==
    IF langCode \in DOMAIN langNames THEN langNames[langCode] ELSE <<>>

exactTier(voices, locales) ==
    LET isExact(locale, v) == v.lang = locale
    IN firstHit([k \in 1..Len(locales) |->
                    LET P(v) == isExact(locales[k], v) IN findIndex(voices, P)])

partialTier(voices, locales) ==
    LET isPartial(locale, v) ==
            \/ startsWith(v.lang, locale)
            \/ startsWith(locale, v.lang)
            \/ includes(toLowerCase(v.lang), toLowerCase(locale))
    IN firstHit([k \in 1..Len(locales) |->
                    LET P(v) == isPartial(locales[k], v) IN findIndex(voices, P)])

nameTier(voices, names) ==
    LET isNamed(name, v) == includes(toLowerCase(v.name), toLowerCase(name))
    IN firstHit([k \in 1..Len(names) |->
                    LET P(v) == isNamed(names[k], v) IN findIndex(voices, P)])

\* The mutant of findVoiceForLanguage: the exact tier is skipped.
findVoiceNoExactTier(voices, langCode) ==
    IF Len(voices) = 0 THEN 0
    ELSE IF partialTier(voices, localesOf(langCode)) # 0
         THEN partialTier(voices, localesOf(langCode))
         ELSE nameTier(voices, namesOf(langCode))

\* The index in `voices` of the voice returned, 0 for null.
findVoiceForLanguage(voices, langCode) ==
    IF Len(voices) = 0 THEN 0
    ELSE IF exactTier(voices, localesOf(langCode)) # 0
         THEN exactTier(voices, localesOf(langCode))
         ELSE IF partialTier(voices, localesOf(langCode)) # 0
              THEN partialTier(voices, localesOf(langCode))
              ELSE nameTier(voices, namesOf(langCode))

(***************************************************************************)
(* Command dispatch.  Each keyword list is one `if` condition of the code, *)
(* its transcript.includes(...) tests in their order.                      *)
(***************************************************************************)
anyIncluded(transcript, words) ==
    \E i \in 1..Len(words) : includes(transcript, words[i])

\* ---- the five-action engine (processCommand)
captureWords == <<"capture", "take photo", "take picture", "snap", "click">>
\* The mutant of describeWords: only the two-word forms are listed.
describeWordsNoBare == <<"describe again", "repeat", "say again", "read again">>
describeWords == <<"describe again", "repeat", "say again", "read again", "describe">>
clearWords == <<"clear", "new image", "remove", "reset">>
saveWords == <<"save", "store", "keep">>
stopWords == <<"stop", "quiet", "silence", "shut up">>

\* The handlers processCommand invokes and the toasts it raises; every branch
\* of the code ends in `return`.
processCommand(transcript) ==
    IF anyIncluded(transcript, captureWords)
    THEN [handlers |-> <<"onCapture">>, toasts |-> <<"Voice Command">>]
    ELSE IF anyIncluded(transcript, describeWords)
    THEN [handlers |-> <<"onDescribeAgain">>, toasts |-> <<"Voice Command">>]
    ELSE IF anyIncluded(transcript, clearWords)
    THEN [handlers |-> <<"onClear">>, toasts |-> <<"Voice Command">>]
    ELSE IF anyIncluded(transcript, saveWords)
    THEN [handlers |-> <<"onSave">>, toasts |-> <<"Voice Command">>]
    ELSE IF anyIncluded(transcript, stopWords)
    THEN [handlers |-> <<"onStop">>, toasts |-> <<"Voice Command">>]
    ELSE [handlers |-> <<>>, toasts |-> <<>>]

\* ---- the three-action engine (the chain inside recognition.onresult)
openCameraWords == <<"open camera", "start camera", "camera">>
uploadWords == <<"upload", "choose file", "select file", "upload image", "upload photo">>
capturePhotoWords == <<"click", "take photo", "capture", "snap", "click photo", "shoot">>

\* The mutant of matchCommand: the capture test comes first.
matchCommandCaptureFirst(transcript) ==
    IF anyIncluded(transcript, capturePhotoWords)
    THEN [handlers |-> <<"onCapturePhoto">>, toasts |-> <<"Voice Command">>]
    ELSE IF anyIncluded(transcript, openCameraWords)
    THEN [handlers |-> <<"onOpenCamera">>, toasts |-> <<"Voice Command">>]
    ELSE IF anyIncluded(transcript, uploadWords)
    THEN [handlers |-> <<"onUploadImage">>, toasts |-> <<"Voice Command">>]
    ELSE [handlers |-> <<>>, toasts |-> <<>>]

matchCommand(transcript) ==
    IF anyIncluded(transcript, openCameraWords)
    THEN [handlers |-> <<"onOpenCamera">>, toasts |-> <<"Voice Command">>]
    ELSE IF anyIncluded(transcript, uploadWords)
    THEN [handlers |-> <<"onUploadImage">>, toasts |-> <<"Voice Command">>]
    ELSE IF anyIncluded(transcript, capturePhotoWords)
    THEN [handlers |-> <<"onCapturePhoto">>, toasts |-> <<"Voice Command">>]
    ELSE [handlers |-> <<>>, toasts |-> <<>>]

\* recognition.onresult of the five-action engine: every result is taken.
onresultFive(raw) ==
    LET transcript == trim(toLowerCase(raw))
    IN /\ heard' = raw
       /\ lastCommand' = <<transcript>>
       /\ invoked' = processCommand(transcript).handlers
       /\ toasts' = processCommand(transcript).toasts

\* The mutant of onresult: the handler of the five-action engine's shape, which
\* takes every result.
onresultEvery(raw, isFinal) ==
    LET transcript == toLowerCase(trim(raw))
    IN /\ heard' = raw
       /\ lastCommand' = <<transcript>>
       /\ invoked' = matchCommand(transcript).handlers
       /\ toasts' = matchCommand(transcript).toasts

\* recognition.onresult of the three-action engine: a result that is not
\* final is dropped.
onresult(raw, isFinal) ==
    LET transcript == toLowerCase(trim(raw))
    IN /\ heard' = raw
       /\ IF ~isFinal
          THEN /\ invoked' = <<>>
               /\ toasts' = <<>>
               /\ UNCHANGED lastCommand
          ELSE /\ lastCommand' = <<transcript>>
               /\ invoked' = matchCommand(transcript).handlers
               /\ toasts' = matchCommand(transcript).toasts

(***************************************************************************)
(* Inputs.                                                                 *)
(***************************************************************************)
Voice(name, lang) == [name |-> name, lang |-> lang]

VoicePool ==
    { Voice("Google US English", "en-US"),
      Voice("Daniel", "en-GB"),
      Voice("English plain", "en"),
      Voice("Lekha", "hi-IN"),
      Voice("Hindi (India)", "hi_IN"),
      Voice("Telugu voice", "te"),
      Voice("Thomas", "fr-FR"),
      Voice("Elena", "es-AR") }

RECURSIVE VoiceLists(_)
VoiceLists(n) ==
    IF n = 0 THEN {<<>>}
    ELSE VoiceLists(n - 1) \cup
         {Append(l, v) : l \in {x \in VoiceLists(n - 1) : Len(x) = n - 1}, v \in VoicePool}

LangCodes == {"en", "hi", "te", "fr", "en-IN", "ar"}

Phrases ==
    { "please take a photo now", "can you describe it again", "clear the image",
      "save this", "stop talking", "what's the weather",
      "Take Photo", " click ", "open the camera", "upload image", "snapshot", "quiet" }

RECURSIVE Joined(_)
Joined(n) ==
    IF n = 1 THEN Phrases
    ELSE {a \o " " \o b : a \in Joined(n - 1), b \in Phrases}

Transcripts == UNION {Joined(n) : n \in 1..MaxPieces}

\* The k-th speak call is made with no text or with the k-th caption.
captionOf(k) == "caption " \o ToString(k)

SpeakLangArgs == {"", "hi"}              \* "" : the languageCode argument is omitted
EngineLangs == {"en", "te"}              \* the codes handed to setLanguage

EngineVoiceLists ==
    { <<>>,
      <<Voice("Google US English", "en-US"), Voice("Lekha", "hi-IN"),
        Voice("Telugu voice", "te")>> }

\* window.responsiveVoice: absent, or present; present, its voiceSupport() may
\* be false, it may lack an isPlaying method, and rvVoices are the names
\* rv.getVoices() reports (<<>> also stands for an rv without getVoices).
RvPlatforms ==
    { [rv |-> FALSE, rvSupport |-> FALSE, rvIsPlaying |-> FALSE, rvVoices |-> <<>>],
      [rv |-> TRUE, rvSupport |-> FALSE, rvIsPlaying |-> TRUE, rvVoices |-> <<>>],
      [rv |-> TRUE, rvSupport |-> TRUE, rvIsPlaying |-> TRUE,
       rvVoices |-> <<"UK English Female", "Hindi Male">>],
      [rv |-> TRUE, rvSupport |-> TRUE, rvIsPlaying |-> FALSE, rvVoices |-> <<>>] }

Platforms ==
    { [native |-> n, rv |-> r.rv, rvSupport |-> r.rvSupport, rvIsPlaying |-> r.rvIsPlaying,
       rvVoices |-> r.rvVoices] : n \in BOOLEAN, r \in RvPlatforms }

\* What a backend does with an utterance that cancel() removes: per the Web
\* Speech API it gets an error event; some platforms send nothing.
CancelOutcomes == {"error", "none"}

\* How rv.speak goes: it takes the utterance, or it throws.
RvOutcomes == {"ok", "throws"}

(***************************************************************************)
(* Speech-output engine.  utts holds the utterances that are in a          *)
(* backend's queue or still have a callback or a timer pending; an         *)
(* utterance leaves it when nothing can refer to it any more.  The         *)
(* handlers act on the record m of the fields they change; commit(m)       *)
(* makes m the next state.                                                 *)
(***************************************************************************)
cur ==
    [utts |-> utts, events |-> events, timers |-> timers,
     isSpeaking |-> isSpeaking, ops |-> <<>>, lastLang |-> ""]

inFlight(u) == u.st \in {"queued", "playing"}

referenced(m) ==
    {k \in DOMAIN m.utts :
        \/ inFlight(m.utts[k])
        \/ \E j \in 1..Len(m.events) : m.events[j].utt = k
        \/ k \in m.timers}

commit(m) ==
    /\ utts' = [k \in referenced(m) |-> m.utts[k]]
    /\ events' = m.events
    /\ timers' = m.timers
    /\ isSpeaking' = m.isSpeaking
    /\ ops' = m.ops
    /\ lastLang' = m.lastLang

setIsSpeaking(m, value) == [m EXCEPT !.isSpeaking = value]

\* A new utterance object, younger than every one still referenced.
newUtt(m, u) ==
    LET ids == DOMAIN m.utts
        id == IF ids = {} THEN 1 ELSE 1 + CHOOSE k \in ids : \A j \in ids : j <= k
    IN [k \in ids \cup {id} |-> IF k = id THEN u ELSE m.utts[k]]

youngest(m) == CHOOSE k \in DOMAIN m.utts : \A j \in DOMAIN m.utts : j <= k

\* The ids of a set in ascending order.
RECURSIVE ascending(_)
ascending(ids) ==
    IF ids = {} THEN <<>>
    ELSE LET k == CHOOSE i \in ids : \A j \in ids : i <= j
         IN <<k>> \o ascending(ids \ {k})

\* speechSynthesis.cancel() / responsiveVoice.cancel() as the platform runs it:
\* every utterance of the backend leaves its queue.
backendCancel(m, backend, outcome, by) ==
    LET hit == {k \in DOMAIN m.utts : m.utts[k].backend = backend /\ inFlight(m.utts[k])}
        ids == ascending(hit)
    IN [m EXCEPT
          !.utts = [k \in DOMAIN m.utts |->
                      IF k \in hit
                      THEN [m.utts[k] EXCEPT !.st = "cancelled", !.cancelledBy = by]
                      ELSE m.utts[k]],
          !.events = IF outcome = "none" THEN @
                     ELSE @ \o [j \in 1..Len(ids) |-> [utt |-> ids[j], kind |-> outcome]],
          !.ops = Append(@, backend \o ".cancel")]

\* The mutant of cancelTargets: only the native synthesizer is cancelled.
cancelNativeOnly == IF env.native THEN <<"native">> ELSE <<>>

\* The backends speak cancels, in the order of the code: the native
\* synthesizer when window has it, then ResponsiveVoice when window has it.
cancelTargets ==
    (IF env.native THEN <<"native">> ELSE <<>>) \o (IF env.rv THEN <<"rv">> ELSE <<>>)

RECURSIVE cancelEach(_, _, _, _)
cancelEach(m, targets, outcome, by) ==
    IF targets = <<>> THEN m
    ELSE cancelEach(backendCancel(m, Head(targets), outcome, by), Tail(targets), outcome, by)

rvCandidates ==
    [en |-> <<"UK English Female", "US English Female">>,
     hi |-> <<"Hindi Female", "Hindi Male">>,
     te |-> <<"Telugu Female", "Telugu Male">>]

\* The mutant of rvVoiceName: the reported voice list is not consulted.
rvVoiceNameFirst(langCode, rvVoices) ==
    IF langCode \in DOMAIN rvCandidates THEN rvCandidates[langCode][1]
    ELSE rvCandidates.en[1]

\* candidateVoices.find(v => availableNames.size === 0 || availableNames.has(v))
\*   || candidateVoices[0]
rvVoiceName(langCode, rvVoices) ==
    LET candidateVoices == IF langCode \in DOMAIN rvCandidates THEN rvCandidates[langCode]
                           ELSE rvCandidates.en
        availableNames == {rvVoices[k] : k \in 1..Len(rvVoices)}
        ok(v) == availableNames = {} \/ v \in availableNames
        hit == findIndex(candidateVoices, ok)
    IN IF hit # 0 THEN candidateVoices[hit] ELSE candidateVoices[1]

\* speakWithResponsiveVoice(text, langCode): [m, ret].
speakWithResponsiveVoice(m, text, langCode, outcome, call) ==
    IF ~env.rv THEN [m |-> m, ret |-> FALSE]
    ELSE IF ~env.rvSupport THEN [m |-> m, ret |-> FALSE]
    ELSE IF outcome = "throws"
    THEN [m |-> setIsSpeaking([m EXCEPT !.ops = Append(@, "rv.speak")], FALSE),
          ret |-> FALSE]
    ELSE LET u == [backend |-> "rv", text |-> text, lang |-> langCode, tag |-> "",
                   voice |-> rvVoiceName(langCode, env.rvVoices), st |-> "queued",
                   call |-> call, cancelledBy |-> -1]
             spoken == [m EXCEPT !.utts = newUtt(m, u), !.ops = Append(@, "rv.speak")]
         IN [m |-> IF env.rvIsPlaying
                   THEN [spoken EXCEPT !.timers = @ \cup {youngest(spoken)}]
                   ELSE setIsSpeaking(spoken, TRUE),
             ret |-> TRUE]

\* The mutant of speakNative: without a voice the utterance language is the
\* bare language code.
speakNativeRawTag(m, text, langToUse, call) ==
    IF ~env.native THEN [m |-> m, ret |-> FALSE]
    ELSE LET v == findVoiceForLanguage(availableVoices, langToUse)
             u == [backend |-> "native", text |-> text, lang |-> langToUse,
                   tag |-> IF v # 0 THEN availableVoices[v].lang ELSE langToUse,
                   voice |-> IF v # 0 THEN availableVoices[v].name ELSE "",
                   st |-> "queued", call |-> call, cancelledBy |-> -1]
         IN [m |-> [m EXCEPT !.utts = newUtt(m, u), !.ops = Append(@, "native.speak")],
             ret |-> TRUE]

\* speakNative() inside speak: [m, ret].
speakNative(m, text, langToUse, call) ==
    IF ~env.native THEN [m |-> m, ret |-> FALSE]
    ELSE LET v == findVoiceForLanguage(availableVoices, langToUse)
             u == [backend |-> "native", text |-> text, lang |-> langToUse,
                   tag |-> IF v # 0 THEN availableVoices[v].lang ELSE localesOf(langToUse)[1],
                   voice |-> IF v # 0 THEN availableVoices[v].name ELSE "",
                   st |-> "queued", call |-> call, cancelledBy |-> -1]
         IN [m |-> [m EXCEPT !.utts = newUtt(m, u), !.ops = Append(@, "native.speak")],
             ret |-> TRUE]

\* A mutant of speak: Hindi goes to ResponsiveVoice first even when a native
\* Hindi voice resolves.
speakSecondaryFirst(m, text, languageCode, cancelOutcome, rvOutcome, call) ==
    LET langToUse == IF languageCode # "" THEN languageCode ELSE currentLanguage
        m1 == cancelEach([m EXCEPT !.lastLang = langToUse], cancelTargets, cancelOutcome, call)
        native == speakNative(m1, text, langToUse, call)
        rv == speakWithResponsiveVoice(m1, text, langToUse, rvOutcome, call)
    IN IF langToUse = "hi"
       THEN IF rv.ret THEN rv.m ELSE speakNative(rv.m, text, langToUse, call).m
       ELSE IF native.ret THEN native.m
            ELSE speakWithResponsiveVoice(native.m, text, langToUse, rvOutcome, call).m

\* A mutant of speak: every language goes to the native backend first.
speakNativeFirst(m, text, languageCode, cancelOutcome, rvOutcome, call) ==
    LET langToUse == IF languageCode # "" THEN languageCode ELSE currentLanguage
        m1 == cancelEach([m EXCEPT !.lastLang = langToUse], cancelTargets, cancelOutcome, call)
        native == speakNative(m1, text, langToUse, call)
    IN IF native.ret THEN native.m
       ELSE speakWithResponsiveVoice(native.m, text, langToUse, rvOutcome, call).m

\* The mutant of targetLanguage: the engine's language is the one it was
\* constructed with.
targetLanguageInitial(languageCode) == IF languageCode # "" THEN languageCode ELSE "en"

\* const langToUse = languageCode || currentLanguage
targetLanguage(languageCode) == IF languageCode # "" THEN languageCode ELSE currentLanguage

\* The body of speak(text, languageCode) after its guard on the text.
speakText(m, text, languageCode, cancelOutcome, rvOutcome, call) ==
    LET langToUse == targetLanguage(languageCode)
        m1 == cancelEach([m EXCEPT !.lastLang = langToUse], cancelTargets, cancelOutcome, call)
        native == speakNative(m1, text, langToUse, call)
    IN IF langToUse = "te"
       THEN IF native.ret THEN native.m
            ELSE speakWithResponsiveVoice(native.m, text, "te", rvOutcome, call).m
       ELSE IF langToUse = "hi"
       THEN IF findVoiceForLanguage(availableVoices, "hi") # 0 THEN native.m
            ELSE LET rv == speakWithResponsiveVoice(m1, text, "hi", rvOutcome, call)
                 IN IF rv.ret THEN rv.m ELSE speakNative(rv.m, text, langToUse, call).m
       ELSE IF native.ret THEN native.m
            ELSE speakWithResponsiveVoice(native.m, text, langToUse, rvOutcome, call).m

\* The mutant of speak: the text is not looked at.
speakAnyText(m, text, languageCode, cancelOutcome, rvOutcome, call) ==
    speakText(m, text, languageCode, cancelOutcome, rvOutcome, call)

\* speak(text, languageCode): if (!text) return.
speak(m, text, languageCode, cancelOutcome, rvOutcome, call) ==
    IF text = "" THEN m
    ELSE speakText(m, text, languageCode, cancelOutcome, rvOutcome, call)

\* The mutant of stop: only the native synthesizer is cancelled.
stopNativeOnly(m, cancelOutcome) ==
    setIsSpeaking(cancelEach(m, cancelNativeOnly, cancelOutcome, 0), FALSE)

\* stop(): it cancels what speak cancels, then setIsSpeaking(false).
stop(m, cancelOutcome) ==
    setIsSpeaking(cancelEach(m, cancelTargets, cancelOutcome, 0), FALSE)

\* The mutant of callback: the error fallback is taken for every language.
callbackAnyLanguage(m, e, rvOutcome) ==
    LET u == m.utts[e.utt]
    IN IF e.kind = "start" THEN setIsSpeaking(m, TRUE)
       ELSE IF e.kind = "end" THEN setIsSpeaking(m, FALSE)
       ELSE LET m1 == setIsSpeaking(m, FALSE)
            IN IF u.backend = "native" /\ env.rv
               THEN speakWithResponsiveVoice(m1, u.text, u.lang, rvOutcome, u.call).m
               ELSE m1

\* utterance.onstart / onend / onerror and the callbacks handed to rv.speak.
callback(m, e, rvOutcome) ==
    LET u == m.utts[e.utt]
    IN IF e.kind = "start" THEN setIsSpeaking(m, TRUE)
       ELSE IF e.kind = "end" THEN setIsSpeaking(m, FALSE)
       ELSE LET m1 == setIsSpeaking(m, FALSE)
            IN IF u.backend = "native" /\ u.lang \in {"hi", "te"} /\ env.rv
               THEN speakWithResponsiveVoice(m1, u.text, u.lang, rvOutcome, u.call).m
               ELSE m1

\* ---- the actions
Speak ==
    /\ mounted
    /\ \/ /\ speakCalls < MaxSpeak
          /\ \E languageCode \in SpeakLangArgs, rvOutcome \in RvOutcomes,
                cancelOutcome \in CancelOutcomes :
                commit(speak(cur, captionOf(speakCalls + 1), languageCode, cancelOutcome,
                             rvOutcome, speakCalls + 1))
          /\ speakCalls' = speakCalls + 1
          /\ lastCall' = "speak"
       \/ /\ \E languageCode \in SpeakLangArgs, rvOutcome \in RvOutcomes,
                cancelOutcome \in CancelOutcomes :
                commit(speak(cur, "", languageCode, cancelOutcome, rvOutcome, speakCalls + 1))
          /\ lastCall' = "speak without text"
          /\ UNCHANGED speakCalls
    /\ UNCHANGED <<env, mounted, currentLanguage, availableVoices, platformVoices,
                   onvoiceschanged, resolveVars, voicesVars, pageVars, historyVars, captionVars, dispatchVars, listenVars>>

Stop ==
    /\ \E cancelOutcome \in CancelOutcomes : commit(stop(cur, cancelOutcome))
    /\ lastCall' = "stop"
    /\ UNCHANGED <<env, mounted, currentLanguage, availableVoices, platformVoices,
                   onvoiceschanged, speakCalls, resolveVars, voicesVars, pageVars, historyVars, captionVars, dispatchVars, listenVars>>

SetLanguage ==
    /\ mounted
    /\ \E lang \in EngineLangs : currentLanguage' = lang
    /\ ops' = <<>>
    /\ lastLang' = ""
    /\ lastCall' = "other"
    /\ UNCHANGED <<env, mounted, isSpeaking, availableVoices, platformVoices, onvoiceschanged,
                   utts, events, timers, speakCalls, resolveVars, voicesVars, pageVars, historyVars, captionVars, dispatchVars, listenVars>>

\* The cleanup functions of the two effects.
Teardown ==
    /\ mounted
    /\ mounted' = FALSE
    /\ \E cancelOutcome \in CancelOutcomes :
          commit(cancelEach(cur, cancelTargets, cancelOutcome, 0))
    /\ onvoiceschanged' = "null"
    /\ lastCall' = "teardown"
    /\ UNCHANGED <<env, currentLanguage, availableVoices, platformVoices, speakCalls,
                   resolveVars, voicesVars, pageVars, historyVars, captionVars, dispatchVars, listenVars>>

\* The platform replaces its voice list and fires voiceschanged: loadVoices runs.
VoicesChanged ==
    /\ onvoiceschanged = "loadVoices"
    /\ \E list \in EngineVoiceLists \ {platformVoices} :
          /\ platformVoices' = list
          /\ availableVoices' = list
    /\ ops' = <<>>
    /\ lastLang' = ""
    /\ lastCall' = "other"
    /\ UNCHANGED <<env, mounted, isSpeaking, currentLanguage, onvoiceschanged, utts, events,
                   timers, speakCalls, resolveVars, voicesVars, pageVars, historyVars, captionVars, dispatchVars, listenVars>>

\* A backend starts its oldest queued utterance when it plays nothing.
BackendStart ==
    /\ \E k \in DOMAIN utts :
          /\ utts[k].st = "queued"
          /\ \A j \in DOMAIN utts :
                utts[j].backend = utts[k].backend =>
                    /\ utts[j].st # "playing"
                    /\ (utts[j].st = "queued" => k <= j)
          /\ utts' = [utts EXCEPT ![k].st = "playing"]
          /\ events' = Append(events, [utt |-> k, kind |-> "start"])
    /\ ops' = <<>>
    /\ lastLang' = ""
    /\ lastCall' = "other"
    /\ UNCHANGED <<env, mounted, isSpeaking, currentLanguage, availableVoices, platformVoices,
                   onvoiceschanged, timers, speakCalls, resolveVars, voicesVars, pageVars, historyVars, captionVars, dispatchVars, listenVars>>

\* A playing utterance reaches its end.
BackendEnd ==
    /\ \E k \in DOMAIN utts :
          /\ utts[k].st = "playing"
          /\ utts' = [utts EXCEPT ![k].st = "ended"]
          /\ events' = Append(events, [utt |-> k, kind |-> "end"])
    /\ ops' = <<>>
    /\ lastLang' = ""
    /\ lastCall' = "other"
    /\ UNCHANGED <<env, mounted, isSpeaking, currentLanguage, availableVoices, platformVoices,
                   onvoiceschanged, timers, speakCalls, resolveVars, voicesVars, pageVars, historyVars, captionVars, dispatchVars, listenVars>>

\* A backend fails an utterance (synthesis failed, voice unavailable, not allowed).
BackendError ==
    /\ \E k \in DOMAIN utts :
          /\ inFlight(utts[k])
          /\ utts' = [utts EXCEPT ![k].st = "failed"]
          /\ events' = Append(events, [utt |-> k, kind |-> "error"])
    /\ ops' = <<>>
    /\ lastLang' = ""
    /\ lastCall' = "other"
    /\ UNCHANGED <<env, mounted, isSpeaking, currentLanguage, availableVoices, platformVoices,
                   onvoiceschanged, timers, speakCalls, resolveVars, voicesVars, pageVars, historyVars, captionVars, dispatchVars, listenVars>>

\* The event loop runs the oldest queued utterance callback.
Deliver ==
    /\ events # <<>>
    /\ \E rvOutcome \in RvOutcomes :
          commit(callback([cur EXCEPT !.events = Tail(@)], Head(events), rvOutcome))
    /\ lastCall' = "callback"
    /\ UNCHANGED <<env, mounted, currentLanguage, availableVoices, platformVoices,
                   onvoiceschanged, speakCalls, resolveVars, voicesVars, pageVars, historyVars, captionVars, dispatchVars, listenVars>>

\* The setTimeout of speakWithResponsiveVoice: if (!rv.isPlaying()) setIsSpeaking(false).
TimerFire ==
    /\ \E k \in timers :
          LET isPlaying == \E j \in DOMAIN utts :
                               utts[j].backend = "rv" /\ utts[j].st = "playing"
              m == [cur EXCEPT !.timers = @ \ {k}]
          IN commit(IF isPlaying THEN m ELSE setIsSpeaking(m, FALSE))
    /\ lastCall' = "other"
    /\ UNCHANGED <<env, mounted, currentLanguage, availableVoices, platformVoices,
                   onvoiceschanged, speakCalls, resolveVars, voicesVars, pageVars, historyVars, captionVars, dispatchVars, listenVars>>

\* The state after the hook's first render and its mount effects (loadVoices
\* has run and is subscribed when window has speechSynthesis).
InitSpeech ==
    /\ env \in Platforms
    /\ mounted = TRUE
    /\ isSpeaking = FALSE
    /\ currentLanguage = "en"
    /\ platformVoices \in (IF env.native THEN EngineVoiceLists ELSE {<<>>})
    /\ availableVoices = platformVoices
    /\ onvoiceschanged = IF env.native THEN "loadVoices" ELSE "null"
    /\ utts = [k \in {} |-> 0]
    /\ events = <<>>
    /\ timers = {}
    /\ speakCalls = 0
    /\ ops = <<>>
    /\ lastLang = ""

\* The engines a specification leaves alone.
InitSpeechIdle ==
    /\ env = [native |-> FALSE, rv |-> FALSE, rvSupport |-> FALSE, rvIsPlaying |-> FALSE,
              rvVoices |-> <<>>]
    /\ isSpeaking = FALSE
    /\ currentLanguage = "en"
    /\ platformVoices = <<>>
    /\ availableVoices = <<>>
    /\ onvoiceschanged = "null"
    /\ utts = [k \in {} |-> 0]
    /\ events = <<>>
    /\ timers = {}
    /\ speakCalls = 0
    /\ ops = <<>>
    /\ lastLang = ""

InitDispatchIdle ==
    /\ heard = ""
    /\ lastCommand = <<>>
    /\ invoked = <<>>
    /\ toasts = <<>>

InitVoicesIdle ==
    /\ instances = <<>>
    /\ synth = [voices |-> <<>>, onvoiceschanged |-> 0]

InitPageIdle ==
    /\ selectedLanguage = "en"
    /\ currentImage = <<>>
    /\ autoTimer = <<>>
    /\ autoReads = 0

InitResolveIdle ==
    /\ rq = [lang |-> "en", voices |-> <<>>]
    /\ rres = <<>>

InitHistoryIdle ==
    /\ history = <<>>
    /\ stored = <<>>
    /\ nextId = 1
    /\ addCalls = 0
    /\ removeCalls = 0

InitCaptionIdle ==
    /\ requests = [k \in {} |-> 0]
    /\ client = [caption |-> <<>>, translatedCaption |-> <<>>, safetyAlerts |-> <<>>,
                 isLoading |-> FALSE, toast |-> <<>>]
    /\ genCalls = 0
    /\ apiKey = FALSE

\* The handlers object of the first render: the initial handlersRef.current.
InitialHandlers == 1

InitListenIdle ==
    /\ supported = FALSE
    /\ sessions = [k \in {} |-> 0]
    /\ recognitionRef = 0
    /\ isListening = FALSE
    /\ startCalls = 0
    /\ handlers = InitialHandlers
    /\ handlersRef = InitialHandlers
    /\ invokedOf = 0

Init ==
    /\ InitSpeech
    /\ InitResolveIdle
    /\ InitVoicesIdle
    /\ InitPageIdle
    /\ InitDispatchIdle
    /\ InitListenIdle
    /\ InitHistoryIdle
    /\ InitCaptionIdle
    /\ lastCall = "other"

Next ==
    \/ Speak
    \/ Stop
    \/ SetLanguage
    \/ Teardown
    \/ VoicesChanged
    \/ BackendStart
    \/ BackendEnd
    \/ BackendError
    \/ Deliver
    \/ TimerFire

Spec == Init /\ [][Next]_vars

(***************************************************************************)
(* The resolver called once on a drawn voice list.                         *)
(***************************************************************************)
InitResolve ==
    /\ rq \in [lang : LangCodes, voices : VoiceLists(MaxVoices)]
    /\ rres = <<>>
    /\ InitVoicesIdle
    /\ InitPageIdle
    /\ InitDispatchIdle
    /\ InitSpeechIdle
    /\ InitListenIdle
    /\ InitHistoryIdle
    /\ InitCaptionIdle
    /\ mounted = FALSE
    /\ lastCall = "init"

Resolve ==
    /\ lastCall = "init"
    /\ rres' = <<findVoiceForLanguage(rq.voices, rq.lang)>>
    /\ lastCall' = "findVoiceForLanguage"
    /\ UNCHANGED <<rq, voicesVars, pageVars, historyVars, captionVars, dispatchVars, speechVars, listenVars>>

NextResolve == Resolve

SpecResolve == InitResolve /\ [][NextResolve]_vars

(***************************************************************************)
(* One recognition result handed to each engine's onresult.                *)
(***************************************************************************)
InitDispatch ==
    /\ heard \in Transcripts
    /\ lastCommand = <<>>
    /\ invoked = <<>>
    /\ toasts = <<>>
    /\ InitResolveIdle
    /\ InitVoicesIdle
    /\ InitPageIdle
    /\ InitSpeechIdle
    /\ InitListenIdle
    /\ InitHistoryIdle
    /\ InitCaptionIdle
    /\ mounted = FALSE
    /\ lastCall = "init"

ResultFive ==
    /\ lastCall = "init"
    /\ onresultFive(heard)
    /\ lastCall' = "onresultFive"
    /\ UNCHANGED <<resolveVars, voicesVars, pageVars, historyVars, captionVars, speechVars, listenVars>>

ResultThree ==
    /\ lastCall = "init"
    /\ \E isFinal \in BOOLEAN :
          /\ onresult(heard, isFinal)
          /\ lastCall' = IF isFinal THEN "onresult" ELSE "onresult interim"
    /\ UNCHANGED <<resolveVars, voicesVars, pageVars, historyVars, captionVars, speechVars, listenVars>>

NextDispatch == ResultFive \/ ResultThree

SpecDispatch == InitDispatch /\ [][NextDispatch]_vars

(***************************************************************************)
(* Speech-input engine (useVoiceCommands).  A session is a recognition     *)
(* object: st is "idle" (not started, or ended), "running" or "stopping"   *)
(* (stop() was called, its end event is still to come); onend tells        *)
(* whether the onend handler is attached.  The handlers act on the record  *)
(* m of the fields they change; commitListen(m) makes m the next state.    *)
(***************************************************************************)
ListenHeard == {"Open Camera ", "hello there"}

curListen ==
    [sessions |-> sessions, recognitionRef |-> recognitionRef, isListening |-> isListening,
     lastCommand |-> lastCommand, toasts |-> <<>>, ops |-> <<>>]

\* A session nobody tracks that is at rest can never act again.
commitListen(m) ==
    /\ sessions' = [k \in {i \in DOMAIN m.sessions :
                              i = m.recognitionRef \/ m.sessions[i].st # "idle"}
                      |-> m.sessions[k]]
    /\ recognitionRef' = m.recognitionRef
    /\ isListening' = m.isListening
    /\ lastCommand' = m.lastCommand
    /\ toasts' = m.toasts
    /\ ops' = m.ops

startOp(k) == "start " \o ToString(k)
stopOp(k) == "stop " \o ToString(k)
endOf(k) == "end " \o ToString(k)
resultOf(k) == "result " \o ToString(k)
interimOf(k) == "interim " \o ToString(k)

\* recognition.start(): [m, threw]; it throws on an object already started.
recognitionStart(m, k) ==
    IF m.sessions[k].st = "idle"
    THEN [m |-> [m EXCEPT !.sessions[k].st = "running", !.ops = Append(@, startOp(k))],
          threw |-> FALSE]
    ELSE [m |-> [m EXCEPT !.ops = Append(@, startOp(k))], threw |-> TRUE]

\* recognition.stop(): a started session is asked to end.
recognitionStop(m, k) ==
    [m EXCEPT !.sessions[k].st = IF @ = "running" THEN "stopping" ELSE @,
              !.ops = Append(@, stopOp(k))]

\* The mutant of teardownSession: the session is let go without stop().
teardownSessionNoStop(m) ==
    IF m.recognitionRef # 0
    THEN [m EXCEPT !.sessions[m.recognitionRef].onend = FALSE, !.recognitionRef = 0]
    ELSE m

\* if (recognitionRef.current) { onend = null; stop(); recognitionRef.current = null }
teardownSession(m) ==
    IF m.recognitionRef # 0
    THEN [recognitionStop([m EXCEPT !.sessions[m.recognitionRef].onend = FALSE],
                          m.recognitionRef)
            EXCEPT !.recognitionRef = 0]
    ELSE m

newSession(m) ==
    LET ids == DOMAIN m.sessions
        id == IF ids = {} THEN 1 ELSE 1 + CHOOSE k \in ids : \A j \in ids : j <= k
    IN [m EXCEPT !.sessions = [k \in ids \cup {id} |->
                                  IF k = id THEN [st |-> "idle", onend |-> TRUE]
                                  ELSE m.sessions[k]],
                 !.recognitionRef = id]

\* The mutant of startListening: the listening state is set whether or not
\* a session was created and started.
startListeningUnguarded(m) ==
    IF ~supported THEN [m EXCEPT !.isListening = TRUE, !.toasts = <<"Not supported">>]
    ELSE LET tracked == newSession(teardownSession(m))
             started == recognitionStart(tracked, tracked.recognitionRef)
         IN [started.m EXCEPT !.isListening = TRUE,
                              !.toasts = <<"Voice Commands Active">>]

startListening(m) ==
    IF ~supported THEN [m EXCEPT !.toasts = <<"Not supported">>]
    ELSE LET tracked == newSession(teardownSession(m))
             started == recognitionStart(tracked, tracked.recognitionRef)
         IN IF started.threw THEN started.m
            ELSE [started.m EXCEPT !.isListening = TRUE,
                                   !.toasts = <<"Voice Commands Active">>]

\* The mutant of stopListening: the function of the five-action engine,
\* which keeps the session and the transcript and raises a toast.
stopListeningEarlier(m) ==
    IF m.recognitionRef = 0 THEN m
    ELSE [recognitionStop(m, m.recognitionRef) EXCEPT
            !.isListening = FALSE, !.toasts = <<"Voice Commands Stopped">>]

stopListening(m) ==
    [teardownSession(m) EXCEPT !.isListening = FALSE, !.lastCommand = <<>>]

\* The mutant of onend: the handler of the five-action engine, whose
\* isListening is the value of the first render, false.
onendStaleClosure(m, k) == m

\* recognition.onend of session k.
onend(m, k) ==
    IF m.recognitionRef = k THEN recognitionStart(m, k).m ELSE m

\* The error codes a recognition error event carries.
RecognitionErrors == {"no-speech", "aborted", "not-allowed", "network"}

errorOf(error) == "onerror " \o error

\* The mutant of onerror: the handler of the five-action engine, which raises
\* a toast for not-allowed and sets isListening to false for every error.
onerrorEarlier(m, error) ==
    [m EXCEPT !.ops = Append(@, "console.error"),
              !.toasts = IF error = "not-allowed" THEN <<"Microphone access denied">>
                         ELSE @,
              !.isListening = FALSE]

\* recognition.onerror: console.error unless the error is no-speech or aborted.
onerror(m, error) ==
    IF error # "no-speech" /\ error # "aborted"
    THEN [m EXCEPT !.ops = Append(@, "console.error")]
    ELSE m

\* The mutant of dispatchHandlers: the handlers the five-action engine calls,
\* those its one recognition object closed over when the hook was mounted.
mountHandlers(k) == InitialHandlers

\* const h = handlersRef.current, read by onresult of session k.
dispatchHandlers(k) == handlersRef

\* ---- the actions
StartListening ==
    /\ mounted
    /\ startCalls < MaxStart
    /\ commitListen(startListening(curListen))
    /\ startCalls' = startCalls + 1
    /\ invoked' = <<>>
    /\ invokedOf' = 0
    /\ UNCHANGED <<handlers, handlersRef>>
    /\ lastCall' = "startListening"
    /\ UNCHANGED <<supported, mounted, heard, resolveVars, voicesVars, pageVars, historyVars, captionVars, speechState>>

\* stopListening may be called through a reference that outlives the hook.
StopListening ==
    /\ commitListen(stopListening(curListen))
    /\ invoked' = <<>>
    /\ invokedOf' = 0
    /\ UNCHANGED <<handlers, handlersRef>>
    /\ lastCall' = "stopListening"
    /\ UNCHANGED <<supported, mounted, startCalls, heard, resolveVars, voicesVars, pageVars, historyVars, captionVars, speechState>>

ToggleListening ==
    /\ mounted
    /\ IF isListening
       THEN /\ commitListen(stopListening(curListen))
            /\ lastCall' = "stopListening"
            /\ UNCHANGED startCalls
       ELSE /\ startCalls < MaxStart
            /\ commitListen(startListening(curListen))
            /\ lastCall' = "startListening"
            /\ startCalls' = startCalls + 1
    /\ invoked' = <<>>
    /\ invokedOf' = 0
    /\ UNCHANGED <<handlers, handlersRef>>
    /\ UNCHANGED <<supported, mounted, heard, resolveVars, voicesVars, pageVars, historyVars, captionVars, speechState>>

\* The cleanup function of the last effect.
CleanupListening ==
    /\ mounted
    /\ mounted' = FALSE
    /\ commitListen(teardownSession(curListen))
    /\ invoked' = <<>>
    /\ invokedOf' = 0
    /\ UNCHANGED <<handlers, handlersRef>>
    /\ lastCall' = "cleanup"
    /\ UNCHANGED <<supported, startCalls, heard, resolveVars, voicesVars, pageVars, historyVars, captionVars, speechState>>

\* A started session ends (on its own, or because stop() was called): its
\* end event runs the onend handler if one is attached.
SessionEnd ==
    /\ \E k \in DOMAIN sessions :
          /\ sessions[k].st # "idle"
          /\ LET ended == [curListen EXCEPT !.sessions[k].st = "idle"]
             IN commitListen(IF sessions[k].onend THEN onend(ended, k) ELSE ended)
          /\ lastCall' = endOf(k)
    /\ invoked' = <<>>
    /\ invokedOf' = 0
    /\ UNCHANGED <<handlers, handlersRef>>
    /\ UNCHANGED <<supported, mounted, startCalls, heard, resolveVars, voicesVars, pageVars, historyVars, captionVars, speechState>>

\* A started session reports an error: its onerror handler runs.
SessionError ==
    /\ \E k \in DOMAIN sessions : sessions[k].st # "idle"
    /\ \E error \in RecognitionErrors :
          /\ commitListen(onerror(curListen, error))
          /\ lastCall' = errorOf(error)
    /\ invoked' = <<>>
    /\ invokedOf' = 0
    /\ UNCHANGED <<handlers, handlersRef>>
    /\ UNCHANGED <<supported, mounted, startCalls, heard, resolveVars, voicesVars, pageVars, historyVars, captionVars, speechState>>

\* A started session delivers a result: its onresult handler runs.
SessionResult ==
    /\ \E k \in DOMAIN sessions, raw \in ListenHeard, isFinal \in BOOLEAN :
          /\ sessions[k].st # "idle"
          /\ onresult(raw, isFinal)
          /\ invokedOf' = IF invoked' # <<>> THEN dispatchHandlers(k) ELSE 0
          /\ lastCall' = IF isFinal THEN resultOf(k) ELSE interimOf(k)
    /\ ops' = <<>>
    /\ UNCHANGED <<supported, sessions, recognitionRef, isListening, startCalls, mounted,
                   handlers, handlersRef,
                   resolveVars, voicesVars, pageVars, historyVars, captionVars, speechState>>

\* The component renders with a new handlers object; the effect that follows
\* every render stores it in handlersRef.
Render ==
    /\ mounted
    /\ handlers < InitialHandlers + MaxRender
    /\ handlers' = handlers + 1
    /\ handlersRef' = handlers + 1
    /\ commitListen(curListen)
    /\ invoked' = <<>>
    /\ invokedOf' = 0
    /\ lastCall' = "render"
    /\ UNCHANGED <<supported, mounted, startCalls, heard, resolveVars, voicesVars, pageVars, historyVars, captionVars, speechState>>

InitListen ==
    /\ supported \in BOOLEAN
    /\ sessions = [k \in {} |-> 0]
    /\ recognitionRef = 0
    /\ isListening = FALSE
    /\ startCalls = 0
    /\ handlers = InitialHandlers
    /\ handlersRef = InitialHandlers
    /\ invokedOf = 0
    /\ InitResolveIdle
    /\ InitVoicesIdle
    /\ InitPageIdle
    /\ InitDispatchIdle
    /\ InitSpeechIdle
    /\ InitHistoryIdle
    /\ InitCaptionIdle
    /\ mounted = TRUE
    /\ lastCall = "init"

NextListen ==
    \/ StartListening
    \/ StopListening
    \/ ToggleListening
    \/ CleanupListening
    \/ SessionEnd
    \/ SessionError
    \/ SessionResult
    \/ Render

SpecListen == InitListen /\ [][NextListen]_vars

(***************************************************************************)
(* Caption history (useCaptionHistory).  An item is [id, timestamp,        *)
(* caption]; ids and timestamps are drawn from one counter.                *)
(***************************************************************************)
MAX_HISTORY_ITEMS == 50

HistoryCaptions == {"a cat"}

HistoryItem(n, caption) == [id |-> n, timestamp |-> n, caption |-> caption]

\* Array.prototype.slice(0, n)
slice(items, n) == SubSeq(items, 1, IF n < Len(items) THEN n ELSE Len(items))

\* Array.prototype.filter
filter(items, keep(_)) == SelectSeq(items, keep)

\* The mutant of addToHistory: the new item is put last.
addToHistoryNewestLast(prev, newItem) == slice(Append(prev, newItem), MAX_HISTORY_ITEMS)

\* The updater of addToHistory: [newItem, ...prev].slice(0, MAX_HISTORY_ITEMS)
addToHistory(prev, newItem) == slice(<<newItem>> \o prev, MAX_HISTORY_ITEMS)

\* The updater of removeFromHistory.
removeFromHistory(prev, id) ==
    LET keep(item) == item.id # id IN filter(prev, keep)

\* saveHistory(items): setItem, whose exception (quota) is caught and logged.
saveHistory(items, outcome) ==
    stored' = IF outcome = "ok" THEN <<items>> ELSE stored

\* What localStorage holds when the hook mounts: nothing, or a list that an
\* earlier session saved, with n items, newest first.
storedList(n) == [k \in 1..n |-> HistoryItem(n + 1 - k, "a cat")]

InitStores == {<<>>, <<storedList(MAX_HISTORY_ITEMS - 1)>>, <<storedList(MAX_HISTORY_ITEMS)>>}

\* The load effect: if (stored) setHistory(JSON.parse(stored)).
loaded(store) == IF store # <<>> THEN store[1] ELSE <<>>

AddToHistory ==
    /\ addCalls < MaxAdd
    /\ \E caption \in HistoryCaptions, outcome \in {"ok", "throws"} :
          LET updated == addToHistory(history, HistoryItem(nextId, caption))
          IN /\ history' = updated
             /\ saveHistory(updated, outcome)
    /\ nextId' = nextId + 1
    /\ addCalls' = addCalls + 1
    /\ lastCall' = "addToHistory"
    /\ UNCHANGED <<removeCalls, resolveVars, voicesVars, pageVars, captionVars, dispatchVars, speechVars, listenVars>>

RemoveFromHistory ==
    /\ removeCalls < MaxRemove
    /\ \E i \in 1..Len(history), outcome \in {"ok", "throws"} :
          LET updated == removeFromHistory(history, history[i].id)
          IN /\ history' = updated
             /\ saveHistory(updated, outcome)
    /\ removeCalls' = removeCalls + 1
    /\ lastCall' = "removeFromHistory"
    /\ UNCHANGED <<nextId, addCalls, resolveVars, voicesVars, pageVars, captionVars, dispatchVars, speechVars, listenVars>>

ClearHistory ==
    /\ history' = <<>>
    /\ stored' = <<>>
    /\ lastCall' = "clearHistory"
    /\ UNCHANGED <<nextId, addCalls, removeCalls, resolveVars, voicesVars, pageVars, captionVars, dispatchVars, speechVars,
                   listenVars>>

\* The hook mounts again (the page is opened again): useState([]) and the
\* load effect.
LoadHistory ==
    /\ history' = loaded(stored)
    /\ lastCall' = "load"
    /\ UNCHANGED <<stored, nextId, addCalls, removeCalls, resolveVars, voicesVars, pageVars, captionVars, dispatchVars,
                   speechVars, listenVars>>

InitHistory ==
    /\ stored \in InitStores
    /\ history = loaded(stored)
    /\ nextId = Len(history) + 1
    /\ addCalls = 0
    /\ removeCalls = 0
    /\ InitCaptionIdle
    /\ InitResolveIdle
    /\ InitVoicesIdle
    /\ InitPageIdle
    /\ InitDispatchIdle
    /\ InitSpeechIdle
    /\ InitListenIdle
    /\ mounted = FALSE
    /\ lastCall = "load"

NextHistory ==
    \/ AddToHistory
    \/ RemoveFromHistory
    \/ ClearHistory
    \/ LoadHistory

SpecHistory == InitHistory /\ [][NextHistory]_vars

(***************************************************************************)
(* Caption service (generate-caption) and caption client (useImageCaption). *)
(* A field that is null or missing is <<>>, a present value v is <<v>>.    *)
(* The code-fence marker of three backquotes is written ~~~, the           *)
(* backquote having no place in a string of this language.                 *)
(***************************************************************************)
\* String.prototype.replace(/pat\n?/g, ''): every match of pat, with the line
\* break after it when there is one, is removed.
RECURSIVE removeAll(_, _)
removeAll(s, pat) ==
    LET hits == {i \in 1..(Len(s) - Len(pat) + 1) : SubSeq(s, i, i + Len(pat) - 1) = pat}
    IN IF hits = {} THEN s
       ELSE LET i == CHOOSE h \in hits : \A j \in hits : h <= j
                rest == SubSeq(s, i + Len(pat), Len(s))
            IN SubSeq(s, 1, i - 1)
               \o removeAll(IF startsWith(rest, "\n") THEN SubSeq(rest, 2, Len(rest))
                            ELSE rest, pat)

\* content.replace(/~~~json\n?/g, '').replace(/~~~\n?/g, '').trim()
cleanContent(content) == trim(removeAll(removeAll(content, "~~~json"), "~~~"))

dogJson == "{\"caption\":\"A dog\",\"translatedCaption\":null,\"safetyAlerts\":[]}"
carJson ==
    "{\"caption\":\"A car\",\"translatedCaption\":\"Ek gaadi\",\"safetyAlerts\":[\"Car ahead\"]}"

\* JSON.parse on the texts the model answers with: the value of a text that is
\* JSON, and throws for every other text.
jsonValues ==
    (dogJson :> [object |-> TRUE, caption |-> <<"A dog">>, translatedCaption |-> <<>>,
                 safetyAlerts |-> <<<<>>>>])
    @@ (carJson :> [object |-> TRUE, caption |-> <<"A car">>,
                    translatedCaption |-> <<"Ek gaadi">>,
                    safetyAlerts |-> <<<<"Car ahead">>>>])
    @@ ("{}" :> [object |-> TRUE, caption |-> <<>>, translatedCaption |-> <<>>,
                 safetyAlerts |-> <<>>])
    @@ ("null" :> [object |-> FALSE, caption |-> <<>>, translatedCaption |-> <<>>,
                   safetyAlerts |-> <<>>])

JSONparse(text) ==
    IF text \in DOMAIN jsonValues THEN [throws |-> FALSE, value |-> jsonValues[text]]
    ELSE [throws |-> TRUE, value |-> <<>>]

\* The message contents the model returns with a 2xx status ("" : none).
Contents ==
    { dogJson,
      "~~~json\n" \o carJson \o "\n~~~",
      "A dog on a beach.",
      "~~~\nA dog\n~~~",
      "{}",
      "null",
      " ",
      "" }

\* What the gateway answers: a status with a message content, or no answer.
Upstreams ==
    {[kind |-> "response", status |-> 200, content |-> c] : c \in Contents}
    \cup {[kind |-> "response", status |-> st, content |-> ""] :
             st \in {429, 402, 400, 401, 404, 500, 503}}
    \cup {[kind |-> "no response", status |-> 0, content |-> ""]}

ImageDatas == {"", "data:image/png;base64,AAAA"}
CaptionLanguages == {"en", "hi"}

\* Response.ok
responseOk(status) == 200 <= status /\ status <= 299

errorBody(message) ==
    [json |-> TRUE, error |-> <<message>>, caption |-> <<>>, translatedCaption |-> <<>>,
     safetyAlerts |-> <<>>, language |-> <<>>]

captionBody(caption, translatedCaption, safetyAlerts, language) ==
    [json |-> TRUE, error |-> <<>>, caption |-> <<caption>>,
     translatedCaption |-> translatedCaption, safetyAlerts |-> <<safetyAlerts>>,
     language |-> <<language>>]

\* a || b on an optional string: b when a is missing or empty.
orElse(a, b) == IF a # <<>> /\ a[1] # "" THEN a[1] ELSE b

\* The mutant of statusFor: every upstream failure becomes a 500.
statusForGeneric(status) == 500

\* The status the service gives an upstream status that is not 2xx.
statusFor(status) ==
    IF status = 429 THEN 429 ELSE IF status = 402 THEN 402 ELSE 500

failureMessage(status) ==
    IF status = 429 THEN "Too many requests. Please wait a moment and try again."
    ELSE IF status = 402 THEN "AI usage limit reached. Please try again later."
    ELSE "Failed to generate caption. Please try again."

\* The mutant of parsedReply: a text that is not JSON is an error.
parsedReplyStrict(content, language) ==
    LET cleaned == cleanContent(content)
        parsed == JSONparse(cleaned)
    IN IF parsed.throws \/ ~parsed.value.object
       THEN [status |-> 500, body |-> errorBody("Failed to generate caption")]
       ELSE [status |-> 200,
             body |-> captionBody(orElse(parsed.value.caption, cleaned),
                                  parsed.value.translatedCaption,
                                  IF parsed.value.safetyAlerts # <<>>
                                  THEN parsed.value.safetyAlerts[1] ELSE <<>>,
                                  language)]

\* The try block that parses the content; reading a field of null throws too.
parsedReply(content, language) ==
    LET cleaned == cleanContent(content)
        parsed == JSONparse(cleaned)
    IN IF parsed.throws \/ ~parsed.value.object
       THEN [status |-> 200, body |-> captionBody(cleaned, <<>>, <<>>, language)]
       ELSE [status |-> 200,
             body |-> captionBody(orElse(parsed.value.caption, cleaned),
                                  parsed.value.translatedCaption,
                                  IF parsed.value.safetyAlerts # <<>>
                                  THEN parsed.value.safetyAlerts[1] ELSE <<>>,
                                  language)]

\* The handler of the service for a POST request.
serve(req, key, upstream) ==
    IF req.imageData = ""
    THEN [status |-> 400, body |-> errorBody("No image data provided")]
    ELSE IF ~key
    THEN [status |-> 500, body |-> errorBody("AI service is not configured")]
    ELSE IF upstream.kind = "no response"
    THEN [status |-> 500, body |-> errorBody("fetch failed")]
    ELSE IF ~responseOk(upstream.status)
    THEN [status |-> statusFor(upstream.status),
          body |-> errorBody(failureMessage(upstream.status))]
    ELSE IF upstream.content = ""
    THEN [status |-> 500, body |-> errorBody("Failed to generate caption")]
    ELSE parsedReply(upstream.content, req.language)

\* What the platform in front of the service answers when it rejects the
\* request itself: a status and a body that is not JSON.
gatewayReply ==
    [status |-> 401,
     body |-> [json |-> FALSE, error |-> <<>>, caption |-> <<>>, translatedCaption |-> <<>>,
               safetyAlerts |-> <<>>, language |-> <<>>]]

errorToast(message) == <<[title |-> "Error", description |-> message]>>

\* The catch and finally blocks of generateCaption.
failed(c, message) == [c EXCEPT !.toast = errorToast(message), !.isLoading = FALSE]

\* generateCaption from the arrival of the response on.
receive(c, reply) ==
    IF ~responseOk(reply.status)
    THEN failed(c, orElse(IF reply.body.json THEN reply.body.error ELSE <<>>,
                          "Failed to generate caption"))
    ELSE IF ~reply.body.json
    THEN failed(c, "Unexpected token")
    ELSE IF reply.body.caption # <<>> /\ reply.body.caption[1] # ""
    THEN LET alerts == IF reply.body.safetyAlerts # <<>> THEN reply.body.safetyAlerts[1]
                       ELSE <<>>
         IN [c EXCEPT !.caption = reply.body.caption,
                      !.translatedCaption = reply.body.translatedCaption,
                      !.safetyAlerts = alerts,
                      !.toast = IF Len(alerts) > 0
                                THEN <<[title |-> "Safety Alert", description |-> alerts[1]]>>
                                ELSE <<[title |-> "Caption generated!",
                                        description |-> "Click 'Read Aloud' to hear the description."]>>,
                      !.isLoading = FALSE]
    ELSE failed(c, "No caption returned from the service")

cleared(c) ==
    [c EXCEPT !.caption = <<>>, !.translatedCaption = <<>>, !.safetyAlerts = <<>>,
              !.toast = <<>>]

\* ---- the actions
\* generateCaption up to its fetch: the state is reset and the request leaves.
GenerateCaption ==
    /\ genCalls < MaxGenerate
    /\ \E imageData \in ImageDatas, language \in CaptionLanguages :
          requests' = (genCalls + 1 :> [imageData |-> imageData, language |-> language,
                                        st |-> "sent", upstream |-> <<>>, reply |-> <<>>])
                      @@ requests
    /\ client' = [cleared(client) EXCEPT !.isLoading = TRUE]
    /\ genCalls' = genCalls + 1
    /\ lastCall' = "generateCaption"
    /\ UNCHANGED <<apiKey, resolveVars, voicesVars, pageVars, historyVars, dispatchVars, speechVars, listenVars>>

\* The service handles a request and answers it.
Serve ==
    /\ \E k \in DOMAIN requests, upstream \in Upstreams :
          /\ requests[k].st = "sent"
          /\ requests' = [requests EXCEPT ![k].st = "answered",
                                          ![k].upstream = <<upstream>>,
                                          ![k].reply = <<serve(requests[k], apiKey, upstream)>>]
    /\ client' = [client EXCEPT !.toast = <<>>]
    /\ lastCall' = "serve"
    /\ UNCHANGED <<genCalls, apiKey, resolveVars, voicesVars, pageVars, historyVars, dispatchVars, speechVars,
                   listenVars>>

\* The platform rejects a request before the service sees it.
GatewayReject ==
    /\ \E k \in DOMAIN requests :
          /\ requests[k].st = "sent"
          /\ requests' = [requests EXCEPT ![k].st = "answered", ![k].reply = <<gatewayReply>>]
    /\ client' = [client EXCEPT !.toast = <<>>]
    /\ lastCall' = "gateway"
    /\ UNCHANGED <<genCalls, apiKey, resolveVars, voicesVars, pageVars, historyVars, dispatchVars, speechVars,
                   listenVars>>

\* The client's fetch rejects: no response arrives.
FetchFails ==
    /\ \E k \in DOMAIN requests :
          /\ requests[k].st = "sent"
          /\ requests' = [j \in DOMAIN requests \ {k} |-> requests[j]]
    /\ client' = failed(client, "Failed to fetch")
    /\ lastCall' = "fetch fails"
    /\ UNCHANGED <<genCalls, apiKey, resolveVars, voicesVars, pageVars, historyVars, dispatchVars, speechVars,
                   listenVars>>

\* The response of a request arrives at the client.
Receive ==
    /\ \E k \in DOMAIN requests :
          /\ requests[k].st = "answered"
          /\ client' = receive(client, requests[k].reply[1])
          /\ requests' = [j \in DOMAIN requests \ {k} |-> requests[j]]
    /\ lastCall' = "receive"
    /\ UNCHANGED <<genCalls, apiKey, resolveVars, voicesVars, pageVars, historyVars, dispatchVars, speechVars,
                   listenVars>>

ClearCaption ==
    /\ client' = cleared(client)
    /\ lastCall' = "clearCaption"
    /\ UNCHANGED <<requests, genCalls, apiKey, resolveVars, voicesVars, pageVars, historyVars, dispatchVars,
                   speechVars, listenVars>>

InitCaption ==
    /\ requests = [k \in {} |-> 0]
    /\ client = [caption |-> <<>>, translatedCaption |-> <<>>, safetyAlerts |-> <<>>,
                 isLoading |-> FALSE, toast |-> <<>>]
    /\ genCalls = 0
    /\ apiKey \in BOOLEAN
    /\ InitResolveIdle
    /\ InitVoicesIdle
    /\ InitPageIdle
    /\ InitDispatchIdle
    /\ InitSpeechIdle
    /\ InitListenIdle
    /\ InitHistoryIdle
    /\ mounted = FALSE
    /\ lastCall = "init"

NextCaption ==
    \/ GenerateCaption
    \/ Serve
    \/ GatewayReject
    \/ FetchFails
    \/ Receive
    \/ ClearCaption

SpecCaption == InitCaption /\ [][NextCaption]_vars

(***************************************************************************)
(* Two instances of the speech-output hook on one window that has         *)
(* speechSynthesis.  Both run the same voices effect; the handler slot     *)
(* speechSynthesis.onvoiceschanged is one property of the shared object.   *)
(***************************************************************************)
Instances == {1, 2}

\* loadVoices of instance i: setAvailableVoices(speechSynthesis.getVoices()).
loadVoices(insts, i, voices) == [insts EXCEPT ![i].availableVoices = voices]

\* The voices effect of instance i on mount.
Construct ==
    /\ \E i \in Instances :
          /\ ~instances[i].alive
          /\ instances' = loadVoices([instances EXCEPT ![i].alive = TRUE], i, synth.voices)
          /\ synth' = [synth EXCEPT !.onvoiceschanged = i]
    /\ lastCall' = "construct"
    /\ UNCHANGED <<resolveVars, pageVars, historyVars, captionVars, dispatchVars, speechVars,
                   listenVars>>

\* The cleanup of the voices effect of instance i.
TeardownInstance ==
    /\ \E i \in Instances :
          /\ instances[i].alive
          /\ instances' = [instances EXCEPT ![i] = [alive |-> FALSE, availableVoices |-> <<>>]]
          /\ synth' = [synth EXCEPT !.onvoiceschanged = 0]
    /\ lastCall' = "teardown"
    /\ UNCHANGED <<resolveVars, pageVars, historyVars, captionVars, dispatchVars, speechVars,
                   listenVars>>

\* The platform's voice list changes: the voiceschanged event runs the
\* handler the slot holds, if it holds one.
VoicesChangedShared ==
    /\ \E list \in VoiceLists(1) \ {synth.voices} :
          /\ synth' = [synth EXCEPT !.voices = list]
          /\ instances' = IF synth.onvoiceschanged # 0
                          THEN loadVoices(instances, synth.onvoiceschanged, list)
                          ELSE instances
    /\ lastCall' = "voiceschanged"
    /\ UNCHANGED <<resolveVars, pageVars, historyVars, captionVars, dispatchVars, speechVars,
                   listenVars>>

InitVoices ==
    /\ instances = [i \in Instances |-> [alive |-> FALSE, availableVoices |-> <<>>]]
    /\ synth \in [voices : VoiceLists(1), onvoiceschanged : {0}]
    /\ InitResolveIdle
    /\ InitPageIdle
    /\ InitDispatchIdle
    /\ InitSpeechIdle
    /\ InitListenIdle
    /\ InitHistoryIdle
    /\ InitCaptionIdle
    /\ mounted = FALSE
    /\ lastCall = "init"

NextVoices ==
    \/ Construct
    \/ TeardownInstance
    \/ VoicesChangedShared

SpecVoices == InitVoices /\ [][NextVoices]_vars

(***************************************************************************)
(* The page (Index): the caption client, the speech-output engine created  *)
(* by useTextToSpeech() without an argument, the selected language and the *)
(* auto-read effect.  An effect runs in the step that changes one of its   *)
(* dependencies.                                                           *)
(***************************************************************************)
\* alerts.join('. ')
RECURSIVE join(_)
join(alerts) ==
    IF Len(alerts) = 0 THEN ""
    ELSE IF Len(alerts) = 1 THEN alerts[1]
    ELSE alerts[1] \o ". " \o join(Tail(alerts))

\* translatedCaption || caption: <<>> when both are missing or empty.
textToSpeak(c) ==
    IF c.translatedCaption # <<>> /\ c.translatedCaption[1] # "" THEN c.translatedCaption
    ELSE IF c.caption # <<>> /\ c.caption[1] # "" THEN c.caption
    ELSE <<>>

\* The argument of the speak call of handleSpeak, handleVoiceDescribe and
\* the auto-read timer.
spoken(c) ==
    IF Len(c.safetyAlerts) > 0
    THEN "Warning! " \o join(c.safetyAlerts) \o ". " \o textToSpeak(c)[1]
    ELSE textToSpeak(c)[1]

\* The auto-read effect run on the client state c: the timer it leaves
\* pending, its cleanup having cleared the one before.
autoReadEffect(c) ==
    IF c.caption # <<>> /\ c.caption[1] # "" /\ ~c.isLoading THEN <<spoken(c)>> ELSE <<>>

\* generateCaption up to its fetch, called by the page.
pageGenerate(imageData, language) ==
    /\ genCalls < MaxGenerate
    /\ requests' = (genCalls + 1 :> [imageData |-> imageData, language |-> language,
                                     st |-> "sent", upstream |-> <<>>, reply |-> <<>>])
                   @@ requests
    /\ client' = [cleared(client) EXCEPT !.isLoading = TRUE]
    /\ genCalls' = genCalls + 1
    /\ autoTimer' = autoReadEffect(client')
    /\ autoReads' = 0

\* What the gateway answers to the requests of the page.
PageUpstreams ==
    { [kind |-> "response", status |-> 200, content |-> dogJson],
      [kind |-> "response", status |-> 200, content |-> "~~~json\n" \o carJson \o "\n~~~"],
      [kind |-> "response", status |-> 429, content |-> ""] }

HandleImageSelect ==
    /\ \E imageData \in ImageDatas \ {""} :
          /\ currentImage' = <<imageData>>
          /\ pageGenerate(imageData, selectedLanguage)
    /\ \E cancelOutcome \in CancelOutcomes : commit(stop(cur, cancelOutcome))
    /\ lastCall' = "handleImageSelect"
    /\ UNCHANGED <<selectedLanguage, apiKey, env, mounted, currentLanguage, availableVoices,
                   platformVoices, onvoiceschanged, speakCalls, resolveVars, voicesVars,
                   historyVars, dispatchVars, listenVars>>

HandleLanguageChange ==
    /\ \E newLanguage \in CaptionLanguages :
          /\ selectedLanguage' = newLanguage
          /\ IF currentImage # <<>> /\ ~client.isLoading
             THEN pageGenerate(currentImage[1], newLanguage)
             ELSE UNCHANGED <<requests, client, genCalls, autoTimer, autoReads>>
    /\ commit(cur)
    /\ lastCall' = "handleLanguageChange"
    /\ UNCHANGED <<currentImage, apiKey, env, mounted, currentLanguage, availableVoices,
                   platformVoices, onvoiceschanged, speakCalls, resolveVars, voicesVars,
                   historyVars, dispatchVars, listenVars>>

\* The response of a request arrives: generateCaption resumes after its
\* fetch, and the auto-read effect runs if the client state changed.
PageReceive ==
    /\ \E k \in DOMAIN requests, upstream \in PageUpstreams :
          LET c == receive(client, serve(requests[k], TRUE, upstream))
              rerun == <<c.caption, c.translatedCaption, c.safetyAlerts, c.isLoading>> #
                       <<client.caption, client.translatedCaption, client.safetyAlerts,
                         client.isLoading>>
                       \/ upstream.status = 200
          IN /\ client' = c
             /\ requests' = [j \in DOMAIN requests \ {k} |-> requests[j]]
             /\ autoTimer' = IF rerun THEN autoReadEffect(c) ELSE autoTimer
             /\ autoReads' = IF c.caption # client.caption THEN 0 ELSE autoReads
    /\ commit(cur)
    /\ lastCall' = "receive"
    /\ UNCHANGED <<selectedLanguage, currentImage, genCalls, apiKey, env, mounted,
                   currentLanguage, availableVoices, platformVoices, onvoiceschanged,
                   speakCalls, resolveVars, voicesVars, historyVars, dispatchVars, listenVars>>

\* The timer of the auto-read effect fires.
AutoRead ==
    /\ autoTimer # <<>>
    /\ autoReads < MaxAutoReads
    /\ speakCalls < MaxPageSpeak
    /\ \E cancelOutcome \in CancelOutcomes, rvOutcome \in RvOutcomes :
          commit(speak(cur, autoTimer[1], "", cancelOutcome, rvOutcome, speakCalls + 1))
    /\ speakCalls' = speakCalls + 1
    /\ autoTimer' = <<>>
    /\ autoReads' = autoReads + 1
    /\ lastCall' = "auto-read"
    /\ UNCHANGED <<selectedLanguage, currentImage, captionVars, env, mounted, currentLanguage,
                   availableVoices, platformVoices, onvoiceschanged, resolveVars, voicesVars,
                   historyVars, dispatchVars, listenVars>>

\* handleSpeak (the Read Aloud button) and handleVoiceDescribe (the
\* describe-again command), which have the same body.
ReadAloud ==
    /\ textToSpeak(client) # <<>>
    /\ speakCalls < MaxPageSpeak
    /\ \E cancelOutcome \in CancelOutcomes, rvOutcome \in RvOutcomes :
          commit(speak(cur, spoken(client), "", cancelOutcome, rvOutcome, speakCalls + 1))
    /\ speakCalls' = speakCalls + 1
    /\ lastCall' \in {"handleSpeak", "handleVoiceDescribe"}
    /\ UNCHANGED <<pageVars, captionVars, env, mounted, currentLanguage, availableVoices,
                   platformVoices, onvoiceschanged, resolveVars, voicesVars, historyVars,
                   dispatchVars, listenVars>>

\* The Stop button and the stop command: stop().
PageStop ==
    /\ \E cancelOutcome \in CancelOutcomes : commit(stop(cur, cancelOutcome))
    /\ lastCall' = "stop"
    /\ UNCHANGED <<pageVars, captionVars, env, mounted, currentLanguage, availableVoices,
                   platformVoices, onvoiceschanged, speakCalls, resolveVars, voicesVars,
                   historyVars, dispatchVars, listenVars>>

\* handleClear and handleVoiceClear.
HandleClear ==
    /\ currentImage' = <<>>
    /\ client' = cleared(client)
    /\ autoTimer' = autoReadEffect(client')
    /\ autoReads' = 0
    /\ \E cancelOutcome \in CancelOutcomes : commit(stop(cur, cancelOutcome))
    /\ lastCall' = "handleClear"
    /\ UNCHANGED <<selectedLanguage, requests, genCalls, apiKey, env, mounted,
                   currentLanguage, availableVoices, platformVoices, onvoiceschanged,
                   speakCalls, resolveVars, voicesVars, historyVars, dispatchVars, listenVars>>

\* voiceschanged: loadVoices sets availableVoices, so findVoiceForLanguage and
\* speak are new functions in the next render and the auto-read effect, which
\* depends on speak, runs again.
PageVoicesChanged ==
    /\ onvoiceschanged = "loadVoices"
    /\ \E list \in EngineVoiceLists \ {platformVoices} :
          /\ platformVoices' = list
          /\ availableVoices' = list
    /\ autoTimer' = autoReadEffect(client)
    /\ commit(cur)
    /\ lastCall' = "voiceschanged"
    /\ UNCHANGED <<selectedLanguage, currentImage, autoReads, captionVars, env, mounted,
                   currentLanguage, onvoiceschanged, speakCalls, resolveVars, voicesVars,
                   historyVars, dispatchVars, listenVars>>

\* The platforms the page is run on: the native synthesizer alone, and with
\* a secondary backend that has isPlaying.
PagePlatforms == {e \in Platforms : e.native /\ (e.rv => e.rvSupport /\ e.rvIsPlaying)}

InitPage ==
    /\ InitSpeech
    /\ env \in PagePlatforms
    /\ InitPageIdle
    /\ requests = [k \in {} |-> 0]
    /\ client = [caption |-> <<>>, translatedCaption |-> <<>>, safetyAlerts |-> <<>>,
                 isLoading |-> FALSE, toast |-> <<>>]
    /\ genCalls = 0
    /\ apiKey = TRUE
    /\ InitResolveIdle
    /\ InitVoicesIdle
    /\ InitDispatchIdle
    /\ InitListenIdle
    /\ InitHistoryIdle
    /\ lastCall = "init"

NextPage ==
    \/ HandleImageSelect
    \/ HandleLanguageChange
    \/ PageReceive
    \/ AutoRead
    \/ ReadAloud
    \/ PageStop
    \/ HandleClear
    \/ PageVoicesChanged

SpecPage == InitPage /\ [][NextPage]_vars

(***************************************************************************)
(* Claims about the speech-output engine.                                  *)
(***************************************************************************)
playing == {k \in DOMAIN utts : utts[k].st = "playing"}

speakOps == {"native.speak", "rv.speak"}

\* C1 (as claimed): once the second speak call has been made, no callback that
\* belongs to the first call's utterance (its start/end/error callback, or what
\* that callback starts) turns the speaking state from false to true.
C1_NoStaleResurrection ==
    [][(/\ lastCall' = "callback"
        /\ events # <<>>
        /\ speakCalls = 2
        /\ utts[Head(events).utt].call = 1)
           => ~(~isSpeaking /\ isSpeaking')]_vars

\* C2 (as claimed): at most one utterance is playing across the native and the
\* secondary backend together.
C2_AtMostOnePlaying == Cardinality(playing) <= 1

\* C3: in a speak call with text, a cancel to the native backend and a cancel
\* to the secondary backend (each when the platform has it) come before every
\* speak request of the call.
C3_CancelBeforeSpeak ==
    lastCall = "speak" =>
        \A j \in 1..Len(ops) :
            ops[j] \in speakOps =>
                /\ env.native => \E i \in 1..(j - 1) : ops[i] = "native.cancel"
                /\ env.rv => \E i \in 1..(j - 1) : ops[i] = "rv.cancel"

\* The second call speaks natively after cancelling the first call's
\* secondary-backend utterance.
C3_Witness ==
    /\ lastCall = "speak"
    /\ ops = <<"native.cancel", "rv.cancel", "native.speak">>
    /\ \E k \in DOMAIN utts :
          /\ utts[k].backend = "rv"
          /\ utts[k].st = "cancelled"
          /\ utts[k].cancelledBy = speakCalls

\* What stop() leaves behind: a cancel went to every backend the platform has,
\* no utterance is left in a backend, and the speaking state is idle.
stopped ==
    /\ ~isSpeaking
    /\ env.native => \E i \in 1..Len(ops) : ops[i] = "native.cancel"
    /\ env.rv => \E i \in 1..Len(ops) : ops[i] = "rv.cancel"
    /\ \A k \in DOMAIN utts : ~inFlight(utts[k])

\* A further stop() would leave every field of the engine as it is.
stopChangesNothing ==
    \A cancelOutcome \in CancelOutcomes :
        LET m == stop(cur, cancelOutcome)
        IN /\ m.utts = utts
           /\ m.events = events
           /\ m.timers = timers
           /\ m.isSpeaking = isSpeaking
           /\ m.ops = ops

issued == {k \in DOMAIN utts : utts[k].call = speakCalls /\ utts[k].st = "queued"}

issuedOn(backend) == {k \in issued : utts[k].backend = backend}

\* C13: with an empty voice list the resolver returns none for every language
\* code, and a speak call still hands its text to a backend when the platform
\* has the native one; a native utterance it issues carries no voice and has
\* the first table locale of the language as its language.
C13_EmptyVoiceList ==
    (lastCall = "speak" /\ availableVoices = <<>>) =>
        /\ \A l \in LangCodes : findVoiceForLanguage(availableVoices, l) = 0
        /\ env.native => issued # {}
        /\ \A k \in issuedOn("native") :
              /\ utts[k].voice = ""
              /\ utts[k].lang = lastLang
              /\ utts[k].tag = LANGUAGE_VOICE_MAP[lastLang][1]

C13_Witness ==
    /\ lastCall = "speak"
    /\ availableVoices = <<>>
    /\ lastLang = "te"
    /\ \E k \in issuedOn("native") : utts[k].voice = "" /\ utts[k].tag = "te-IN"

\* The speak requests among the backend calls of the last step, in order.
speakRequests ==
    LET isRequest(op) == op \in speakOps IN SelectSeq(ops, isRequest)

resolves == findVoiceForLanguage(availableVoices, lastLang) # 0

\* C16: when a native voice resolves for the language of a speak call, the
\* call issues one utterance, on the native backend and with that voice, and
\* makes no speak request to the secondary backend.
C16_NativePreferred ==
    (lastCall = "speak" /\ resolves) =>
        /\ speakRequests = <<"native.speak">>
        /\ issuedOn("rv") = {}
        /\ \E k \in issuedOn("native") :
              /\ issued = {k}
              /\ utts[k].voice =
                    availableVoices[findVoiceForLanguage(availableVoices, lastLang)].name

\* A Hindi call with a native Hindi voice on a platform whose secondary
\* backend is present and usable.
C16_Witness ==
    /\ lastCall = "speak"
    /\ lastLang = "hi"
    /\ resolves
    /\ env.rv
    /\ env.rvSupport
    /\ issuedOn("native") # {}

\* C17 (as claimed): for hi and for te, when no native voice resolves and the
\* secondary backend is present and usable, the first speak request goes to the
\* secondary backend, and a native request follows only if the secondary
\* backend did not take the utterance.
C17_SecondaryFirst ==
    (/\ lastCall = "speak"
     /\ lastLang \in {"hi", "te"}
     /\ ~resolves
     /\ env.rv
     /\ env.rvSupport)
        => /\ speakRequests # <<>>
           /\ speakRequests[1] = "rv.speak"
           /\ Len(speakRequests) > 1 => issuedOn("rv") = {}

\* C17 (amended): with no native voice resolving and the secondary backend
\* present, a Hindi call asks the secondary backend first (when its
\* voiceSupport() does not say no) and makes a native request only if the
\* secondary backend did not take the utterance; a Telugu call makes its one
\* request to the native backend whenever the platform has it, and asks the
\* secondary backend only when the platform has no native backend.
C17_HindiSecondaryFirst ==
    (lastCall = "speak" /\ ~resolves /\ env.rv) =>
        /\ lastLang = "hi" =>
              /\ env.rvSupport =>
                    /\ speakRequests # <<>>
                    /\ speakRequests[1] = "rv.speak"
                    /\ Len(speakRequests) > 1 => issuedOn("rv") = {}
              /\ issuedOn("rv") # {} => speakRequests = <<"rv.speak">>
              /\ (issuedOn("rv") = {} /\ env.native) => issuedOn("native") # {}
        /\ lastLang = "te" =>
              /\ env.native => (speakRequests = <<"native.speak">> /\ issuedOn("rv") = {})
              /\ (~env.native /\ env.rvSupport) => speakRequests = <<"rv.speak">>

\* The secondary backend threw on a Hindi call and the native backend took
\* the utterance without a voice.
C17_Witness ==
    /\ lastCall = "speak"
    /\ lastLang = "hi"
    /\ ~resolves
    /\ speakRequests = <<"rv.speak", "native.speak">>
    /\ \E k \in issuedOn("native") : utts[k].voice = ""

requested(op) == \E j \in 1..Len(ops) : ops[j] = op

\* The speak call of the last step asked the secondary backend and the
\* secondary backend did not take the utterance (rv.speak threw).
rvThrew == lastCall = "speak" /\ requested("rv.speak") /\ issuedOn("rv") = {}

\* C18 (as claimed): on a platform with the native backend, a secondary
\* attempt that fails is followed by a native speak request: in the same call
\* when rv.speak throws, and in the is-playing check when that finds the
\* secondary backend not playing an utterance it never started.
C18_SecondaryFailureFallsBack ==
    [][/\ (rvThrew' /\ env.native) => speakRequests' = <<"rv.speak", "native.speak">>
       /\ (/\ timers' # timers
           /\ timers' \subseteq timers
           /\ env.native
           /\ \A k \in DOMAIN utts : ~(utts[k].backend = "rv" /\ utts[k].st = "playing")
           /\ \E k \in timers \ timers' : utts[k].st = "queued")
              => requested("native.speak")']_vars

\* Every speak call has at most one native utterance, and an utterance has at
\* most one error callback, which it gets when it has left its backend.
oneErrorPerUtterance ==
    /\ \A k, j \in DOMAIN utts :
          (/\ utts[k].backend = "native"
           /\ utts[j].backend = "native"
           /\ utts[k].call = utts[j].call
           /\ utts[k].cancelledBy = -1
           /\ utts[j].cancelledBy = -1
           /\ inFlight(utts[k])
           /\ inFlight(utts[j])) => k = j
    /\ \A k \in DOMAIN utts :
          LET errors == {i \in 1..Len(events) :
                            events[i].utt = k /\ events[i].kind = "error"}
          IN /\ Cardinality(errors) <= 1
             /\ errors # {} => ~inFlight(utts[k])

\* C19: a callback makes a speak request only when it is the error callback of
\* a native utterance whose language is hi or te; the request is one rv.speak
\* for the text and language of that utterance; the callbacks of a secondary
\* utterance, its error callback included, make no request; no callback makes
\* a native request; and an utterance gets at most one error callback.
C19_FallbackOnlyHiTeOnce ==
    [][/\ (lastCall' = "callback" /\ events # <<>>) =>
             LET e == Head(events)
                 u == utts[e.utt]
             IN /\ ~requested("native.speak")'
                /\ requested("rv.speak")' =>
                      /\ ops' = <<"rv.speak">>
                      /\ e.kind = "error"
                      /\ u.backend = "native"
                      /\ u.lang \in {"hi", "te"}
                /\ u.backend = "rv" => ops' = <<>>
                /\ \A k \in DOMAIN utts' \ DOMAIN utts :
                      /\ utts'[k].backend = "rv"
                      /\ utts'[k].text = u.text
                      /\ utts'[k].lang = u.lang
                      /\ utts'[k].call = u.call
       /\ oneErrorPerUtterance']_vars

\* The error callback of a native Hindi or Telugu utterance has handed its
\* text to the secondary backend.
C19_Witness ==
    /\ lastCall = "callback"
    /\ ops = <<"rv.speak">>
    /\ \E k \in DOMAIN utts : utts[k].backend = "rv" /\ utts[k].st = "queued"

\* C22: speak with an empty text does nothing: the speaking state, every
\* utterance in flight, the pending callbacks and the timers stay as they
\* were, and no backend is called (no cancel, no speak).
C22_EmptyTextNoOp ==
    [][ lastCall' = "speak without text" =>
            /\ UNCHANGED <<isSpeaking, utts, events, timers, speakCalls>>
            /\ ops' = <<>> ]_vars

\* speak was called with an empty text while an utterance was playing and
\* the engine was speaking.
C22_Witness ==
    /\ lastCall = "speak without text"
    /\ isSpeaking
    /\ playing # {}

\* C24 (as claimed, output engine): the cleanup cancels the native and the
\* secondary backend, whichever the platform has, leaving no utterance in
\* flight; and once the hook is unmounted no callback that was still pending
\* asks a backend to speak.
C24_TeardownReleases ==
    /\ lastCall = "teardown" =>
          /\ ops = [j \in 1..Len(cancelTargets) |-> cancelTargets[j] \o ".cancel"]
          /\ \A k \in DOMAIN utts : ~inFlight(utts[k])
    /\ ~mounted => ~requested("native.speak") /\ ~requested("rv.speak")

\* C28 (as claimed): the speaking state goes from idle to speaking only in the
\* start callback of an utterance that is playing, never inside speak; and
\* from speaking to idle only in an end or error callback or in stop.
C28_SpeakingStateTransitions ==
    [][ /\ (~isSpeaking /\ isSpeaking') =>
              /\ lastCall' = "callback"
              /\ events # <<>>
              /\ Head(events).kind = "start"
              /\ utts[Head(events).utt].st = "playing"
        /\ (isSpeaking /\ ~isSpeaking') =>
              \/ lastCall' = "stop"
              \/ /\ lastCall' = "callback"
                 /\ events # <<>>
                 /\ Head(events).kind \in {"end", "error"} ]_vars

\* The candidate names the secondary backend is asked for, by language.
claimedCandidates(langCode) ==
    CASE langCode = "hi" -> <<"Hindi Female", "Hindi Male">>
      [] langCode = "te" -> <<"Telugu Female", "Telugu Male">>
      [] OTHER -> <<"UK English Female", "US English Female">>

\* name is a candidate of the language; it is the first candidate when the
\* backend reports no voice, and the first candidate reported when it reports
\* one.
voiceAsClaimed(langCode, name) ==
    LET candidates == claimedCandidates(langCode)
        reported == {env.rvVoices[j] : j \in 1..Len(env.rvVoices)}
        present == {i \in 1..Len(candidates) : candidates[i] \in reported}
    IN /\ \E i \in 1..Len(candidates) : name = candidates[i]
       /\ reported = {} => name = candidates[1]
       /\ present # {} => name = candidates[CHOOSE i \in present : \A j \in present : i <= j]

\* C29: every utterance handed to the secondary backend carries a voice name
\* that is as claimed for its language and the voices the backend reports,
\* and so does the name chosen for every language code, those without a
\* candidate list of their own included.
C29_SecondaryVoiceName ==
    /\ \A k \in DOMAIN utts :
          utts[k].backend = "rv" => voiceAsClaimed(utts[k].lang, utts[k].voice)
    /\ \A langCode \in LangCodes :
          voiceAsClaimed(langCode, rvVoiceName(langCode, env.rvVoices))

\* A Hindi utterance went to a secondary backend that reports only the second
\* Hindi candidate, and carries that name.
C29_Witness ==
    /\ env.rvVoices # <<>>
    /\ \E k \in DOMAIN utts :
          /\ utts[k].backend = "rv"
          /\ utts[k].lang = "hi"
          /\ utts[k].voice = "Hindi Male"

\* C21: setLanguage changes the engine's language and nothing else: the
\* speaking state, the utterances with their text, language and voice, the
\* pending callbacks and timers and both backends stay as they were and no
\* backend is called; a speak call then uses its languageCode argument when
\* it has one and the engine's language otherwise, on the utterance it issues.
C21_SetLanguageOnlyDefault ==
    [][ /\ currentLanguage' # currentLanguage =>
              /\ UNCHANGED <<isSpeaking, utts, events, timers, env, mounted, availableVoices,
                             platformVoices, onvoiceschanged, speakCalls>>
              /\ ops' = <<>>
        /\ \A languageCode \in SpeakLangArgs :
              targetLanguage(languageCode)' =
                  IF languageCode = "" THEN currentLanguage' ELSE languageCode
        /\ lastCall' = "speak" =>
              /\ lastLang' \in {currentLanguage} \cup (SpeakLangArgs \ {""})
              /\ \A k \in issued' : utts'[k].lang = lastLang' ]_vars

\* After setLanguage("te"), a speak call without a language has issued a
\* Telugu utterance.
C21_Witness ==
    /\ lastCall = "speak"
    /\ currentLanguage = "te"
    /\ lastLang = "te"
    /\ \E k \in issued : utts[k].lang = "te"

\* C33 (as claimed): from the return of stop() to the next speak() call no
\* speak request goes to a backend, no utterance begins to play and the
\* speaking state stays idle; the step that follows stop() is then either a
\* speak call or one that leaves all three as stop() left them.
C33_QuietAfterStop ==
    [][(lastCall = "stop" /\ lastCall' # "speak")
           => /\ ~isSpeaking'
              /\ ~requested("rv.speak")'
              /\ ~requested("native.speak")'
              /\ playing' = {}]_vars

\* The utterances that are playing and whose start callback has run.
startedPlaying ==
    {k \in playing :
        ~\E i \in 1..Len(events) : events[i].utt = k /\ events[i].kind = "start"}

\* C34 (as claimed): the delayed is-playing check of a secondary-backend speak
\* does not turn the speaking state to idle while an utterance whose start
\* callback has run is playing.
C34_TimerSparesLaterUtterance ==
    [][(/\ lastCall' = "other"
        /\ timers' # timers
        /\ timers' \subseteq timers
        /\ startedPlaying # {}
        /\ isSpeaking)
           => isSpeaking']_vars

(***************************************************************************)
(* Claims about the speech-input engine.                                   *)
(***************************************************************************)
running(ss) == {k \in DOMAIN ss : ss[k].st = "running"}

\* C5: when the tracked session ends while isListening is true, the engine
\* issues exactly one start() for that end event, on that session, and
\* isListening stays true; when a session ends in the step right after
\* stopListening, no start() is issued, isListening stays false and no session
\* is running.
C5_RestartOnlyWhileListening ==
    [][\A k \in DOMAIN sessions :
          lastCall' = endOf(k) =>
              /\ (recognitionRef = k /\ isListening) =>
                    /\ ops' = <<startOp(k)>>
                    /\ isListening'
                    /\ recognitionRef' = k
                    /\ sessions'[k].st = "running"
              /\ lastCall = "stopListening" =>
                    /\ ops' = <<>>
                    /\ ~isListening'
                    /\ running(sessions') = {}]_vars

\* The tracked session has ended while the engine was listening and has been
\* started again.
C5_Witness ==
    /\ recognitionRef # 0
    /\ lastCall = endOf(recognitionRef)
    /\ isListening
    /\ ops = <<startOp(recognitionRef)>>
    /\ sessions[recognitionRef].st = "running"

\* The state startListening leaves on a platform with speech recognition: the
\* session it created is tracked and is the one running session; every other
\* session has its onend handler detached; and the stop() of the session that
\* was tracked before comes before the start() of the new one.
oneActiveSession ==
    /\ recognitionRef # 0
    /\ running(sessions) = {recognitionRef}
    /\ \A k \in DOMAIN sessions \ {recognitionRef} : ~sessions[k].onend
    /\ \/ ops = <<startOp(recognitionRef)>>
       \/ \E k \in DOMAIN sessions \ {recognitionRef} :
             /\ ops = <<stopOp(k), startOp(recognitionRef)>>
             /\ sessions[k].st = "stopping"

\* C6: every startListening, the second of two in a row included, leaves
\* exactly one active session, the earlier one having been torn down before
\* the new one starts; and the end event of a session that is not the tracked
\* one issues no start().
C6_OneActiveSession ==
    [][/\ (lastCall' = "startListening" /\ supported) => oneActiveSession'
       /\ \A k \in DOMAIN sessions :
             (lastCall' = endOf(k) /\ recognitionRef # k) =>
                 (ops' = <<>> /\ (k \in DOMAIN sessions' => sessions'[k].st = "idle"))]_vars

\* startListening has been called while an earlier session was running.
C6_Witness ==
    /\ lastCall = "startListening"
    /\ oneActiveSession
    /\ \E k \in DOMAIN sessions \ {recognitionRef} :
          ops = <<stopOp(k), startOp(recognitionRef)>>

\* C14 (as claimed): a not-allowed (permission denied) error raises a
\* notification and leaves the engine idle, with isListening false and no
\* running session tracked; and the end event that follows it issues no
\* start().
C14_PermissionDeniedForcesIdle ==
    [][/\ lastCall' = errorOf("not-allowed") =>
             /\ toasts' # <<>>
             /\ ~isListening'
             /\ recognitionRef' \notin running(sessions')
       /\ \A k \in DOMAIN sessions :
             (lastCall = errorOf("not-allowed") /\ lastCall' = endOf(k)) => ops' = <<>>]_vars

\* C15: a no-speech or aborted error changes neither isListening nor the last
\* transcript nor the tracked session nor any session, and raises no toast.
C15_NoiseErrorsChangeNothing ==
    [][lastCall' \in {errorOf("no-speech"), errorOf("aborted")} =>
          /\ UNCHANGED <<isListening, lastCommand, recognitionRef, sessions>>
          /\ toasts' = <<>>
          /\ ops' = <<>>]_vars

\* A no-speech error has reached an engine that is listening and has a last
\* transcript.
C15_Witness ==
    /\ lastCall = errorOf("no-speech")
    /\ isListening
    /\ lastCommand # <<>>
    /\ recognitionRef \in running(sessions)

\* A second stopListening call, made in this state, would change nothing and
\* call nothing.
stopListeningChangesNothing ==
    LET m == stopListening(curListen)
    IN /\ m.sessions = sessions
       /\ m.recognitionRef = recognitionRef
       /\ m.isListening = isListening
       /\ m.lastCommand = lastCommand
       /\ m.ops = <<>>
       /\ m.toasts = <<>>

\* C23: in whatever state stopListening is called (never started, listening,
\* after the cleanup), afterwards the engine is idle, tracks no session, has
\* no last transcript, no session keeps an end handler that could restart
\* it, and a second call changes nothing.
C23_StopListeningAlwaysIdle ==
    lastCall = "stopListening" =>
        /\ ~isListening
        /\ recognitionRef = 0
        /\ lastCommand = <<>>
        /\ \A k \in DOMAIN sessions : ~sessions[k].onend /\ sessions[k].st # "running"
        /\ stopListeningChangesNothing

\* stopListening was called while a session was running: the session was
\* asked to stop.
C23_Witness ==
    /\ lastCall = "stopListening"
    /\ \E k \in DOMAIN sessions : sessions[k].st = "stopping" /\ ops = <<stopOp(k)>>

\* C27 (as claimed): a result that comes from a session which is not the
\* tracked one leaves the last transcript as it was, invokes no handler and
\* raises no toast; the end event of such a session starts nothing.
C27_StaleSessionIgnored ==
    [][\A k \in DOMAIN sessions :
          recognitionRef # k =>
              /\ lastCall' \in {resultOf(k), interimOf(k)} =>
                    /\ lastCommand' = lastCommand
                    /\ invoked' = <<>>
                    /\ toasts' = <<>>
              /\ lastCall' = endOf(k) =>
                    /\ ops' = <<>>
                    /\ running(sessions') = running(sessions) \ {k}]_vars

finalResult == lastCall \in {"onresultFive", "onresult"}

\* C7 (as claimed): the transcript "please take a photo now" is classified as
\* Capture, i.e. the capture handler of the engine is the one handler invoked.
C7_TakeAPhotoIsCapture ==
    (finalResult /\ lastCommand = <<"please take a photo now">>)
        => invoked = (IF lastCall = "onresultFive" THEN <<"onCapture">>
                      ELSE <<"onCapturePhoto">>)

\* C8: processCommand classifies "can you describe it again" as DescribeAgain,
\* "clear the image" as Clear, "save this" as Save, "stop talking" as Stop and
\* "what's the weather" as no action (no handler, no toast).
C8_ExampleTranscripts ==
    lastCall = "onresultFive" =>
        /\ lastCommand = <<"can you describe it again">> => invoked = <<"onDescribeAgain">>
        /\ lastCommand = <<"clear the image">> => invoked = <<"onClear">>
        /\ lastCommand = <<"save this">> => invoked = <<"onSave">>
        /\ lastCommand = <<"stop talking">> => invoked = <<"onStop">>
        /\ lastCommand = <<"what's the weather">> => (invoked = <<>> /\ toasts = <<>>)

C8_Witness ==
    /\ lastCall = "onresultFive"
    /\ lastCommand = <<"can you describe it again">>
    /\ invoked = <<"onDescribeAgain">>

\* The categories of each engine in the order its code tests them.
fiveOrder ==
    << [handler |-> "onCapture", words |-> captureWords],
       [handler |-> "onDescribeAgain", words |-> describeWords],
       [handler |-> "onClear", words |-> clearWords],
       [handler |-> "onSave", words |-> saveWords],
       [handler |-> "onStop", words |-> stopWords] >>

threeOrder ==
    << [handler |-> "onOpenCamera", words |-> openCameraWords],
       [handler |-> "onUploadImage", words |-> uploadWords],
       [handler |-> "onCapturePhoto", words |-> capturePhotoWords] >>

orderOf(call) == IF call = "onresultFive" THEN fiveOrder ELSE threeOrder

matching(order, transcript) ==
    {k \in 1..Len(order) : anyIncluded(transcript, order[k].words)}

\* The position of a handler in the order the claim gives:
\* Capture, DescribeAgain, Clear, Save, Stop, OpenCamera, UploadImage.
claimedRank(handler) ==
    CASE handler \in {"onCapture", "onCapturePhoto"} -> 1
      [] handler = "onDescribeAgain" -> 2
      [] handler = "onClear" -> 3
      [] handler = "onSave" -> 4
      [] handler = "onStop" -> 5
      [] handler = "onOpenCamera" -> 6
      [] handler = "onUploadImage" -> 7

\* C9 (as claimed): at most one handler is invoked, and it is the handler of the
\* earliest matching category in the order Capture, DescribeAgain, Clear, Save,
\* Stop, OpenCamera, UploadImage.
C9_ClaimedOrder ==
    finalResult =>
        /\ Len(invoked) <= 1
        /\ \A k \in matching(orderOf(lastCall), lastCommand[1]) :
              /\ invoked # <<>>
              /\ claimedRank(invoked[1]) <= claimedRank(orderOf(lastCall)[k].handler)

\* C9 (amended): at most one handler is invoked, and it is the handler of the
\* earliest matching category in the engine's own order: Capture, DescribeAgain,
\* Clear, Save, Stop in the five-action engine and OpenCamera, UploadImage,
\* Capture in the three-action engine; no handler when no category matches.
C9_FirstMatchInEngineOrder ==
    finalResult =>
        LET order == orderOf(lastCall)
            m == matching(order, lastCommand[1])
        IN /\ Len(invoked) <= 1
           /\ m = {} => invoked = <<>>
           /\ m # {} => invoked = <<order[CHOOSE k \in m : \A j \in m : k <= j].handler>>

C9_Witness ==
    /\ lastCall = "onresult"
    /\ anyIncluded(lastCommand[1], capturePhotoWords)
    /\ anyIncluded(lastCommand[1], openCameraWords)
    /\ invoked = <<"onOpenCamera">>

\* A transcript without white space at its ends and without capital letters.
normalized(transcript) ==
    /\ transcript # "" =>
          /\ SubSeq(transcript, 1, 1) \notin WhiteSpace
          /\ SubSeq(transcript, Len(transcript), Len(transcript)) \notin WhiteSpace
    /\ \A i \in 1..Len(transcript) :
          \A j \in 1..Len(UpperChars) :
             SubSeq(transcript, i, i) # SubSeq(UpperChars, j, j)

\* C30: a result that is not final changes nothing and invokes nothing; a
\* final result stores the trimmed, lowercased transcript as the last
\* transcript and goes through the dispatcher once: one handler and one
\* toast when a keyword matches, none when none matches, and nothing is
\* logged as an error.
C30_OnlyFinalResults ==
    [][\A k \in DOMAIN sessions :
          /\ lastCall' = interimOf(k) =>
                /\ lastCommand' = lastCommand
                /\ invoked' = <<>>
                /\ toasts' = <<>>
                /\ ops' = <<>>
                /\ UNCHANGED <<isListening, recognitionRef, sessions>>
          /\ lastCall' = resultOf(k) =>
                /\ lastCommand' = <<toLowerCase(trim(heard'))>>
                /\ normalized(lastCommand'[1])
                /\ Len(invoked') = Len(toasts')
                /\ ops' = <<>>
                /\ UNCHANGED <<isListening, recognitionRef, sessions>>
                /\ IF matching(threeOrder, lastCommand'[1]) = {}
                   THEN invoked' = <<>>
                   ELSE /\ Len(invoked') = 1
                        /\ \E i \in matching(threeOrder, lastCommand'[1]) :
                              invoked'[1] = threeOrder[i].handler]_vars

\* A final result "Open Camera " has been taken: the last transcript is
\* "open camera" and the camera handler has run.
C30_Witness ==
    /\ \E k \in DOMAIN sessions : lastCall = resultOf(k)
    /\ heard = "Open Camera "
    /\ lastCommand = <<"open camera">>
    /\ invoked = <<"onOpenCamera">>

(***************************************************************************)
(* Claims about the voice resolver.                                        *)
(***************************************************************************)
exactCandidates(voices, locales) ==
    {k \in 1..Len(locales) : \E i \in 1..Len(voices) : voices[i].lang = locales[k]}

\* tag.split('-')[0]: the language part of a locale tag.
langPart(tag) ==
    LET dashes == {i \in 1..Len(tag) : SubSeq(tag, i, i) = "-"}
    IN IF dashes = {} THEN tag
       ELSE SubSeq(tag, 1, (CHOOSE i \in dashes : \A j \in dashes : i <= j) - 1)

absentCode == rres # <<>> /\ rq.lang \notin DOMAIN LANGUAGE_VOICE_MAP

\* C11 (as claimed): for a language code that is not in the table the code
\* itself is the only candidate: the result is none when no voice tag equals
\* the code or is a prefix of it or has it as a prefix, and a voice that is
\* returned is never a voice of another language.
C11_AbsentCodeNoSubstitute ==
    absentCode =>
        /\ (\A i \in 1..Len(rq.voices) :
               /\ ~startsWith(rq.voices[i].lang, rq.lang)
               /\ ~startsWith(rq.lang, rq.voices[i].lang)) => rres[1] = 0
        /\ rres[1] # 0 => langPart(rq.voices[rres[1]].lang) = langPart(rq.lang)

\* C12 (as claimed): when no voice matches a candidate locale exactly or by
\* prefix or containment, and a voice has the language part of the requested
\* code, the voice returned has that language part.
C12_LanguagePartMatch ==
    (/\ rres # <<>>
     /\ exactTier(rq.voices, localesOf(rq.lang)) = 0
     /\ partialTier(rq.voices, localesOf(rq.lang)) = 0
     /\ \E i \in 1..Len(rq.voices) : langPart(rq.voices[i].lang) = langPart(rq.lang))
        => /\ rres[1] # 0
           /\ langPart(rq.voices[rres[1]].lang) = langPart(rq.lang)

\* C10: for a language code of the table and a voice list holding a voice whose
\* tag equals a candidate locale, the voice returned has exactly the tag of the
\* earliest such candidate locale, whatever the order of the voice list.
C10_ExactTagWins ==
    (/\ rres # <<>>
     /\ rq.lang \in DOMAIN LANGUAGE_VOICE_MAP
     /\ exactCandidates(rq.voices, localesOf(rq.lang)) # {})
        => LET c == exactCandidates(rq.voices, localesOf(rq.lang))
               first == CHOOSE k \in c : \A j \in c : k <= j
           IN /\ rres[1] # 0
              /\ rq.voices[rres[1]].lang = localesOf(rq.lang)[first]

\* An exact voice is returned although a voice matching by prefix stands before it.
C10_Witness ==
    /\ rres = <<2>>
    /\ rq.lang = "en"
    /\ rq.voices = <<Voice("English plain", "en"), Voice("Google US English", "en-US")>>

\* The part of a locale tag or language code before its first region
\* separator, "-" or "_".
languagePart(tag) ==
    LET seps == {i \in 1..Len(tag) : SubSeq(tag, i, i) \in {"-", "_"}}
    IN IF seps = {} THEN tag
       ELSE SubSeq(tag, 1, (CHOOSE i \in seps : \A j \in seps : i <= j) - 1)

\* C39 (as claimed): a voice returned for a language code has a tag that is
\* not empty and whose language part is the language part of the code.
C39_ReturnedVoiceOfLanguage ==
    (rres # <<>> /\ rres[1] # 0) =>
        /\ rq.voices[rres[1]].lang # ""
        /\ toLowerCase(languagePart(rq.voices[rres[1]].lang)) =
               toLowerCase(languagePart(rq.lang))

(***************************************************************************)
(* Claims about the caption history.                                       *)
(***************************************************************************)
\* Timestamps strictly decrease from the first item to the last.
newestFirst(items) ==
    \A i \in 1..(Len(items) - 1) : items[i].timestamp > items[i + 1].timestamp

\* C20: the history never holds more than 50 items and stays newest first;
\* an add puts the new item first, and on a full list it drops exactly the
\* last item, which is the oldest, keeping the 50 most recent.
C20_HistoryCap ==
    [][ /\ Len(history') <= MAX_HISTORY_ITEMS
        /\ newestFirst(history')
        /\ lastCall' = "addToHistory" =>
              /\ history'[1].id = nextId
              /\ IF Len(history) = MAX_HISTORY_ITEMS
                 THEN /\ Tail(history') = SubSeq(history, 1, MAX_HISTORY_ITEMS - 1)
                      /\ \A i \in 1..Len(history') :
                            history'[i].timestamp > history[MAX_HISTORY_ITEMS].timestamp
                 ELSE Tail(history') = history ]_vars

\* An add onto a full list has happened: 50 items, the new one first, the
\* oldest of the former 50 gone.
C20_Witness ==
    /\ lastCall = "addToHistory"
    /\ Len(history) = MAX_HISTORY_ITEMS
    /\ history[1].id = MAX_HISTORY_ITEMS + 1
    /\ history[MAX_HISTORY_ITEMS].id = 2

(***************************************************************************)
(* Claims about the caption service and the caption client.                *)
(***************************************************************************)
\* The requests the service answered in this step, and those whose response
\* the client took in this step.
answeredNow == {k \in DOMAIN requests : requests[k].st = "sent" /\ k \in DOMAIN requests'
                                        /\ requests'[k].st = "answered"}
takenNow == {k \in DOMAIN requests : requests[k].st = "answered" /\ k \notin DOMAIN requests'}

unparsed ==
    {k \in DOMAIN requests :
        /\ requests[k].st = "answered"
        /\ requests[k].upstream # <<>>
        /\ requests[k].imageData # ""
        /\ apiKey
        /\ requests[k].upstream[1].kind = "response"
        /\ requests[k].upstream[1].status = 200
        /\ requests[k].upstream[1].content # ""
        /\ LET parsed == JSONparse(cleanContent(requests[k].upstream[1].content))
           IN parsed.throws \/ ~parsed.value.object}

shown(c) == <<c.caption, c.translatedCaption, c.safetyAlerts>>

\* C38 (as claimed): the step that follows clearCaption, unless it is a
\* generateCaption call, leaves caption, translation and alerts empty; and a
\* response changes what is shown only if it is the response of the request
\* issued last.
C38_OnlyLatestRequestShown ==
    [][ /\ (lastCall = "clearCaption" /\ lastCall' # "generateCaption") =>
              shown(client') = <<<<>>, <<>>, <<>>>>
        /\ (lastCall' = "receive" /\ shown(client') # shown(client)) =>
              takenNow = {genCalls} ]_vars

(***************************************************************************)
(* Claims about two speech-output hooks on one window.                     *)
(***************************************************************************)
\* C32 (as claimed): every instance that is alive holds the voice list the
\* platform has now: it loaded the list at its construction and every
\* voiceschanged event since has refreshed it, whatever was constructed or
\* torn down beside it.
C32_EveryInstanceLive ==
    \A i \in DOMAIN instances :
        instances[i].alive => instances[i].availableVoices = synth.voices

(***************************************************************************)
(* Claims about the page.                                                  *)
(***************************************************************************)
\* C36 (as claimed): the speak call that reads a caption aloud (the auto-read
\* timer, the Read Aloud button, the describe-again command) has the
\* language selected on the page as its target language.
C36_ReadInSelectedLanguage ==
    [][lastCall' \in {"auto-read", "handleSpeak", "handleVoiceDescribe"}
           => lastLang' = selectedLanguage']_vars

\* C37 (as claimed): at most one auto-read speak call is made for the caption
\* shown, whatever happens between its auto-read and the next caption.
C37_AutoReadOnce == autoReads <= 1

====
